---- MODULE Spec2Model ----
(***************************************************************************)
(* Model of the dictation core of doubao-ime-mac:                          *)
(*   VoiceController (src/src/business/voice_controller.rs), its response  *)
(*   worker, the incremental diff update_text, and the recording flag and  *)
(*   capture thread of AudioCapture (src/src/audio/capture.rs).            *)
(* Atomic flags are single variables; every load/store of a flag that the  *)
(* code performs from a different thread or across an await is a step of   *)
(* its own, so every interleaving of controller, workers and capture       *)
(* threads is explored.                                                    *)
(***************************************************************************)
EXTENDS Integers, Sequences, FiniteSets, TLC

\* ------------------------------------------------------------------ bounds
MaxSessions == 2    \* start attempts that pass the is_recording guard
MaxFragments == 2   \* responses delivered on the stream in SpecWorker
MaxLen == 2         \* longest text given to update_text in SpecDiff
MaxFrames == 2      \* frames the device delivers in SpecCapture
ChannelCapacity == 1  \* stands for the 100 of tokio_mpsc::channel(100)
MaxSamples == 2     \* samples in a frame of SpecVolume
MaxCallbacks == 2   \* on_trigger calls in SpecHotkey
MaxKeyEvents == 3   \* key events (taps and chords) in SpecHotkey
MaxUpdates == 1     \* successful update_config calls in SpecHotkey
MaxThreads == 3     \* threads calling the HotkeyManager in SpecLocks
MaxCallers == 2     \* threads calling AudioCapture.start in SpecStartRace

Sessions == 1..MaxSessions

\* ------------------------------------------------------------------- text
\* A text is a sequence of characters (Rust's str::chars()). A character is
\* named by a small number; Utf8Char gives the bytes Rust stores for it.
\*   1 = 'a', 2 = 'b', 3 = U+4F60, 4 = U+4F61 (same first two bytes as 3)
Chars == 1..4

Utf8Char(c) ==
    CASE c = 1 -> <<97>>
      [] c = 2 -> <<98>>
      [] c = 3 -> <<228, 189, 160>>
      [] c = 4 -> <<228, 189, 161>>

RECURSIVE Utf8(_)
Utf8(t) == IF t = <<>> THEN <<>> ELSE Utf8Char(Head(t)) \o Utf8(Tail(t))

Min(a, b) == IF a <= b THEN a ELSE b

TextsUpTo(n) == UNION {[1..k -> Chars] : k \in 0..n}

\* zip(a, b).take_while(|(x, y)| x == y).count()
ZipTakeWhileEqCount(a, b) ==
    Cardinality({i \in 1..Min(Len(a), Len(b)) : \A j \in 1..i : a[j] = b[j]})

\* The same count taken over the bytes of both texts.
common_prefix_len_bytes(old_text, new_text) ==
    ZipTakeWhileEqCount(Utf8(old_text), Utf8(new_text))

common_prefix_len(old_text, new_text) == ZipTakeWhileEqCount(old_text, new_text)

chars_to_delete(old_text, new_text) ==
    Len(old_text) - common_prefix_len(old_text, new_text)

\* text_to_append taken from the start of the new text (no skip).
text_to_append_whole(old_text, new_text) == new_text

text_to_append(old_text, new_text) ==
    SubSeq(new_text, common_prefix_len(old_text, new_text) + 1, Len(new_text))

\* update_text without its two tests: both calls made whatever the count and
\* the text.
update_text_untested(old_text, new_text, del_ok, ins_ok) ==
    LET d == chars_to_delete(old_text, new_text)
        a == text_to_append(old_text, new_text)
        del == <<[call |-> "delete_chars", count |-> d, text |-> <<>>, ok |-> del_ok]>>
        ins == IF del_ok
               THEN <<[call |-> "insert", count |-> 0, text |-> a, ok |-> ins_ok]>>
               ELSE <<>>
    IN  del \o ins

\* update_text going on to insert after a delete_chars that has failed (no
\* `?` on the first call).
update_text_insert_anyway(old_text, new_text, del_ok, ins_ok) ==
    LET d == chars_to_delete(old_text, new_text)
        a == text_to_append(old_text, new_text)
        del == IF d > 0 THEN <<[call |-> "delete_chars", count |-> d, text |-> <<>>, ok |-> del_ok]>>
               ELSE <<>>
        ins == IF a # <<>>
               THEN <<[call |-> "insert", count |-> 0, text |-> a, ok |-> ins_ok]>>
               ELSE <<>>
    IN  del \o ins

\* The TextInserter calls update_text makes, in order, each with its result.
\* del_ok / ins_ok: whether the platform call succeeds; a failing
\* delete_chars returns from update_text before insert is tried.
update_text(old_text, new_text, del_ok, ins_ok) ==
    LET d == chars_to_delete(old_text, new_text)
        a == text_to_append(old_text, new_text)
        del == IF d > 0 THEN <<[call |-> "delete_chars", count |-> d, text |-> <<>>, ok |-> del_ok]>>
               ELSE <<>>
        ins == IF a # <<>> /\ (d > 0 => del_ok)
               THEN <<[call |-> "insert", count |-> 0, text |-> a, ok |-> ins_ok]>>
               ELSE <<>>
    IN  del \o ins

\* What a sequence of TextInserter calls leaves of the text before the caret
\* when nothing else edits the field: insert types the text at the caret,
\* delete_chars sends that many backspaces; a call that fails does nothing.
RECURSIVE field_after(_, _)
field_after(calls, field) ==
    IF calls = <<>> THEN field
    ELSE LET c == Head(calls)
             f == IF ~c.ok THEN field
                  ELSE IF c.call = "insert" THEN field \o c.text
                  ELSE SubSeq(field, 1, IF c.count >= Len(field) THEN 0
                                        ELSE Len(field) - c.count)
         IN  field_after(Tail(calls), f)

\* -------------------------------------------------------------- variables
VARIABLES
    is_recording,      \* VoiceController.is_recording
    stop_signal,       \* VoiceController.stop_signal
    cap_is_recording,  \* AudioCapture.is_recording
    ctl_pc,            \* where the call holding the controller lock stands
    op, ret,           \* the last controller call and its result
    nsess,             \* sessions begun (start calls that passed the guard)
    capture_thread,    \* per session: the thread AudioCapture.start spawned
    worker,            \* per session: the result processing task
    last_text,         \* per session: the worker's baseline
    result_rx,         \* per session: responses queued for the worker
    rx_closed,         \* per session: the stream's sender is gone
    received,          \* per session: responses the worker has taken
    on_result,         \* per session: the result callback's invocations
    inserter_calls,    \* per session: the TextInserter calls made
    delivered,         \* responses delivered so far (all sessions)
    d_old, d_new,      \* SpecDiff: the two texts given to update_text
    d_pc,              \* SpecDiff: "input" before the call, "done" after
    d_kept,            \* SpecDiff: common_prefix_len of that call
    d_deleted,         \* SpecDiff: chars_to_delete of that call
    d_appended,        \* SpecDiff: text_to_append of that call
    d_calls,           \* SpecDiff: the TextInserter calls of that call
    a_op, a_ret,       \* SpecCapture: the last AudioCapture call and its result
    cap_fault,         \* per capture thread: how run_audio_capture failed
    frame_counter,     \* per capture thread: frames encoded so far
    tokio_ch,          \* per capture thread: the frame channel's contents
    audio_rx,          \* per capture thread: frames taken by the receiver
    captured,          \* frames the device has delivered (all threads)
    current_volume,    \* AudioCapture.current_volume
    v_frame,           \* SpecVolume: the frame the device delivered
    v_channels,        \* SpecVolume: the device's channel count
    v_pc,              \* SpecVolume: "input" before the frame, "done" after
    hk_callback,       \* HotkeyManager.callback: 0 for None, else the callback
    hk_registered,     \* on_trigger calls made; the n-th registers callback n
    hk_binding,        \* on_trigger calls that have stored but not yet bound
    hk_op, hk_ret,     \* the last HotkeyManager call to return and its result
    hk_provider,       \* HotkeyManager.provider: the n-th provider constructed
    hk_config,         \* per provider: the configuration it was made from
    hk_is_active,      \* per provider: MacosHotkeyProvider.is_active
    hk_monitor_handle, \* per provider: monitor_handle, 0 for None
    hk_spawned,        \* listener threads spawned so far
    hk_starting,       \* listener threads that have not yet run
    hk_monitors,       \* the installed event monitors, in order
    hk_last_press,     \* LAST_PRESS: "none", the time of the previous tap
                       \* ("prev"), or that of a tap before it ("old")
    hk_tap,            \* the user's taps: "one" if a first tap is pending
    hk_gaps,           \* the taps so far: each one's distance from the one before
    hk_events,         \* key events delivered (taps and chords)
    hk_elapsed,        \* the last tap's distance from the remembered one
    hk_invoked,        \* the callbacks invoked, in order
    q_pc,              \* per monitoring loop: "sleep", or "lock" in lock().await
    q_result,          \* per monitoring loop: the result of its last query
    q_locked,          \* per monitoring loop: a call was in progress when it
                       \* issued its last query
    w_mode,            \* WindowsHotkeyProvider.mode
    w_is_active,       \* WindowsHotkeyProvider.is_active
    w_pc,              \* its listener thread: "none", "test", "wait", "done"
    w_channel,         \* GlobalHotKeyEvent's channel: per event, whether it
                       \* arrived after stop had returned
    w_last,            \* the listener's last_press_time: "none" or "prev"
    w_sent,            \* hotkey events sent so far
    w_invoked,         \* callback invocations by the listener
    l_pc,              \* SpecLocks, per thread: where its call stands
    l_ret,             \* SpecLocks, per thread: the result of its call
    provider_lock,     \* HotkeyManager.provider's Mutex: its holder, 0 if free
    callback_lock,     \* HotkeyManager.callback's Mutex: its holder, 0 if free
    c_pc,              \* SpecStartRace, per caller: "idle", "called", "returned"
    c_ret              \* SpecStartRace, per caller: the result of its call

flagvars == <<is_recording, stop_signal, cap_is_recording>>
ctlvars == <<ctl_pc, op, ret, nsess>>
streamvars == <<result_rx, rx_closed, delivered>>
logvars == <<last_text, received, on_result, inserter_calls>>
dvars == <<d_old, d_new, d_pc, d_kept, d_deleted, d_appended, d_calls>>
avars == <<a_op, a_ret, cap_fault, frame_counter, tokio_ch, audio_rx, captured,
           current_volume>>
vvars == <<v_frame, v_channels, v_pc>>
hvars == <<hk_callback, hk_registered, hk_binding, hk_op, hk_ret, hk_provider,
           hk_config, hk_is_active, hk_monitor_handle, hk_spawned, hk_starting,
           hk_monitors, hk_last_press, hk_tap, hk_gaps, hk_elapsed, hk_events,
           hk_invoked>>
qvars == <<q_pc, q_result, q_locked>>
wvars == <<w_mode, w_is_active, w_pc, w_channel, w_last, w_sent, w_invoked>>
lvars == <<l_pc, l_ret, provider_lock, callback_lock>>
cvars == <<c_pc, c_ret>>
yvars == <<wvars, lvars, cvars>>
xvars == <<avars, vvars, hvars, qvars, yvars>>
vars == <<flagvars, ctlvars, capture_thread, worker, streamvars, logvars, dvars,
          xvars>>

\* ------------------------------------------------------- recognition side
\* The recognition collaborator (crate::asr, spec section 6): tagged
\* responses on a stream.
AsrTexts == {<<>>, <<1>>, <<1, 3>>, <<4>>}

Response(type, text) == [response_type |-> type, text |-> text]

Responses ==
    {Response(t, x) : t \in {"InterimResult", "FinalResult"}, x \in AsrTexts}
    \cup {Response(t, <<>>) : t \in {"SessionFinished", "Error", "Other"}}

\* The responses with which the session ends a stream.
EndResponses == {Response("SessionFinished", <<>>), Response("Error", <<>>)}

EmptySeqs == [s \in Sessions |-> <<>>]

InitVC ==
    /\ is_recording = FALSE
    /\ stop_signal = FALSE
    /\ cap_is_recording = FALSE
    /\ ctl_pc = "idle"
    /\ op = "none"
    /\ ret = "none"
    /\ nsess = 0
    /\ capture_thread = [s \in Sessions |-> "none"]
    /\ worker = [s \in Sessions |-> "none"]
    /\ last_text = EmptySeqs
    /\ result_rx = EmptySeqs
    /\ rx_closed = [s \in Sessions |-> FALSE]
    /\ received = EmptySeqs
    /\ on_result = EmptySeqs
    /\ inserter_calls = EmptySeqs
    /\ delivered = 0

InitDiffIdle ==
    /\ d_old = <<>>
    /\ d_new = <<>>
    /\ d_pc = "input"
    /\ d_kept = 0
    /\ d_deleted = 0
    /\ d_appended = <<>>
    /\ d_calls = <<>>

\* AudioCapture::new: the flag clear, the volume 0; nothing called yet.
InitCapture ==
    /\ a_op = "none"
    /\ a_ret = "none"
    /\ cap_fault = [s \in Sessions |-> "none"]
    /\ frame_counter = [s \in Sessions |-> 0]
    /\ tokio_ch = EmptySeqs
    /\ audio_rx = EmptySeqs
    /\ captured = 0
    /\ current_volume = 0

InitVolumeIdle ==
    /\ v_frame = <<>>
    /\ v_channels = 1
    /\ v_pc = "input"

Providers == 1..(MaxUpdates + 1)

\* HotkeyManager::new with MacosHotkeyProvider::new on a double-tap
\* configuration: no callback, the first provider, active, no monitor.
InitHotkey ==
    /\ hk_callback = 0
    /\ hk_registered = 0
    /\ hk_binding = {}
    /\ hk_op = "new"
    /\ hk_ret = "ok"
    /\ hk_provider = 1
    /\ hk_config = [p \in Providers |-> IF p = 1 THEN "double_tap" ELSE "none"]
    /\ hk_is_active = [p \in Providers |-> p = 1]
    /\ hk_monitor_handle = [p \in Providers |-> 0]
    /\ hk_spawned = 0
    /\ hk_starting = {}
    /\ hk_monitors = <<>>
    /\ hk_last_press = "none"
    /\ hk_tap = "none"
    /\ hk_gaps = <<>>
    /\ hk_events = 0
    /\ hk_elapsed = "none"
    /\ hk_invoked = <<>>

\* The monitoring loops of init_core_logic: focus change, volume, caret.
Loops == {"focus", "volume", "caret"}

InitQuery ==
    /\ q_pc = [l \in Loops |-> "sleep"]
    /\ q_result = [l \in Loops |-> "none"]
    /\ q_locked = [l \in Loops |-> FALSE]

\* WindowsHotkeyProvider::new: active, no listener thread yet.
InitWinListener ==
    /\ w_mode = "none"
    /\ w_is_active = TRUE
    /\ w_pc = "none"
    /\ w_channel = <<>>
    /\ w_last = "none"
    /\ w_sent = 0
    /\ w_invoked = 0

Threads == 1..MaxThreads

\* HotkeyManager::new: both locks free, no call under way.
InitLocks ==
    /\ l_pc = [t \in Threads |-> "idle"]
    /\ l_ret = [t \in Threads |-> "none"]
    /\ provider_lock = 0
    /\ callback_lock = 0

Callers == 1..MaxCallers

InitCallers ==
    /\ c_pc = [c \in Callers |-> "idle"]
    /\ c_ret = [c \in Callers |-> "none"]

InitMore == InitWinListener /\ InitLocks /\ InitCallers

Init ==
    /\ InitVC /\ InitDiffIdle /\ InitCapture /\ InitVolumeIdle /\ InitHotkey
    /\ InitQuery /\ InitMore

\* ----------------------------------------------------------- AudioCapture
\* AudioCapture::stop: clears the flag.
AudioCaptureStop == cap_is_recording' = FALSE

\* The capture loop's test `while is_recording.load()` finds the flag clear
\* and run_audio_capture returns.
CaptureLoopExit(s) ==
    /\ capture_thread[s] = "run"
    /\ ~cap_is_recording
    /\ capture_thread' = [capture_thread EXCEPT ![s] = "exiting"]
    /\ UNCHANGED <<flagvars, ctlvars, worker, streamvars, logvars, dvars, xvars>>

\* run_audio_capture ends with an error (no device, configuration or encoder
\* failure) or panics; the thread catches both.
CaptureFault(s) ==
    /\ capture_thread[s] = "run"
    /\ capture_thread' = [capture_thread EXCEPT ![s] = "exiting"]
    /\ UNCHANGED <<flagvars, ctlvars, worker, streamvars, logvars, dvars, xvars>>

\* The thread's end without its is_recording.store(false).
CaptureThreadExit_no_store(s) ==
    /\ capture_thread[s] = "exiting"
    /\ capture_thread' = [capture_thread EXCEPT ![s] = "done"]
    /\ UNCHANGED <<flagvars, ctlvars, worker, streamvars, logvars, dvars, xvars>>

\* The thread's last statement: is_recording.store(false).
CaptureThreadExit(s) ==
    /\ capture_thread[s] = "exiting"
    /\ cap_is_recording' = FALSE
    /\ capture_thread' = [capture_thread EXCEPT ![s] = "done"]
    /\ UNCHANGED <<is_recording, stop_signal, ctlvars, worker, streamvars,
                   logvars, dvars, xvars>>

\* -------------------------------------------------------- VoiceController
\* start() without its `if self.is_recording() { return Ok(()) }`.
start_unguarded ==
    /\ nsess < MaxSessions
    /\ nsess' = nsess + 1
    /\ is_recording' = TRUE
    /\ stop_signal' = FALSE
    /\ IF cap_is_recording
       THEN /\ ret' = "err"
            /\ UNCHANGED <<cap_is_recording, ctl_pc, capture_thread>>
       ELSE /\ cap_is_recording' = TRUE
            /\ capture_thread' = [capture_thread EXCEPT ![nsess + 1] = "run"]
            /\ ctl_pc' = "connect"
            /\ ret' = "pending"

\* start(): the guard, the two stores, AudioCapture::start (swap, spawn),
\* up to the await of start_realtime.
start ==
    IF is_recording
    THEN /\ ret' = "ok"
         /\ UNCHANGED <<flagvars, ctl_pc, nsess, capture_thread>>
    ELSE /\ nsess < MaxSessions
         /\ nsess' = nsess + 1
         /\ is_recording' = TRUE
         /\ stop_signal' = FALSE
         /\ IF cap_is_recording       \* swap(true) returned true
            THEN /\ ret' = "err"      \* "Already recording"
                 /\ UNCHANGED <<cap_is_recording, ctl_pc, capture_thread>>
            ELSE /\ cap_is_recording' = TRUE
                 /\ capture_thread' = [capture_thread EXCEPT ![nsess + 1] = "run"]
                 /\ ctl_pc' = "connect"
                 /\ ret' = "pending"

\* stop() with its is_recording.store(false) moved before the sleep.
stop_clears_early ==
    IF ~is_recording
    THEN /\ ret' = "ok"
         /\ UNCHANGED <<flagvars, ctl_pc, nsess, capture_thread>>
    ELSE /\ stop_signal' = TRUE
         /\ AudioCaptureStop
         /\ is_recording' = FALSE
         /\ ctl_pc' = "grace"
         /\ ret' = "pending"
         /\ UNCHANGED <<nsess, capture_thread>>

\* stop(): the guard, the stop signal, AudioCapture::stop, up to the sleep.
stop ==
    IF ~is_recording
    THEN /\ ret' = "ok"
         /\ UNCHANGED <<flagvars, ctl_pc, nsess, capture_thread>>
    ELSE /\ stop_signal' = TRUE
         /\ AudioCaptureStop
         /\ ctl_pc' = "grace"
         /\ ret' = "pending"
         /\ UNCHANGED <<is_recording, nsess, capture_thread>>

toggle == IF is_recording THEN stop ELSE start

\* The callers hold the controller's lock for the whole call: a call begins
\* only when no other call is in progress.
CallStart ==
    /\ ctl_pc = "idle"
    /\ op' = "start"
    /\ start
    /\ UNCHANGED <<worker, streamvars, logvars, dvars, xvars>>

CallStop ==
    /\ ctl_pc = "idle"
    /\ op' = "stop"
    /\ stop
    /\ UNCHANGED <<worker, streamvars, logvars, dvars, xvars>>

CallToggle ==
    /\ ctl_pc = "idle"
    /\ op' = "toggle"
    /\ toggle
    /\ UNCHANGED <<worker, streamvars, logvars, dvars, xvars>>

\* start_realtime(audio_rx).await succeeded: the worker is spawned on the
\* response stream and start returns Ok.
StartConnected ==
    /\ ctl_pc = "connect"
    /\ worker' = [worker EXCEPT ![nsess] = "check"]
    /\ ctl_pc' = "idle"
    /\ ret' = "ok"
    /\ UNCHANGED <<flagvars, op, nsess, capture_thread, streamvars, logvars, dvars, xvars>>

\* start_realtime(audio_rx).await failed: `?` returns the error.
StartConnectFailed ==
    /\ ctl_pc = "connect"
    /\ ctl_pc' = "idle"
    /\ ret' = "err"
    /\ UNCHANGED <<flagvars, op, nsess, capture_thread, worker, streamvars,
                   logvars, dvars, xvars>>

\* stop() after the sleep: is_recording.store(false), return Ok.
StopFinish ==
    /\ ctl_pc = "grace"
    /\ is_recording' = FALSE
    /\ ctl_pc' = "idle"
    /\ ret' = "ok"
    /\ UNCHANGED <<stop_signal, cap_is_recording, op, nsess, capture_thread,
                   worker, streamvars, logvars, dvars, xvars>>

\* ------------------------------------------------------------- the worker
\* Top of the loop: `if stop_signal.load() { break; }`.
WorkerCheckStop(s) ==
    /\ worker[s] = "check"
    /\ worker' = [worker EXCEPT ![s] = IF stop_signal THEN "stop_capture" ELSE "recv"]
    /\ UNCHANGED <<flagvars, ctlvars, capture_thread, streamvars, logvars, dvars, xvars>>

\* handle_response with the baseline replaced by every interim text, the
\* empty one too (the `if !response.text.is_empty()` left out around the
\* assignment).
handle_response_always_rebase(r, baseline, del_ok, ins_ok) ==
    CASE r.response_type = "InterimResult" ->
           [cb |-> <<[text |-> r.text, is_final |-> FALSE]>>,
            calls |-> IF r.text # <<>>
                      THEN update_text(baseline, r.text, del_ok, ins_ok) ELSE <<>>,
            last_text |-> r.text,
            break |-> FALSE]
      [] r.response_type = "FinalResult" ->
           [cb |-> <<[text |-> r.text, is_final |-> TRUE]>>,
            calls |-> IF r.text # <<>>
                      THEN update_text(baseline, r.text, del_ok, ins_ok) ELSE <<>>,
            last_text |-> IF r.text # <<>> THEN <<>> ELSE baseline,
            break |-> FALSE]
      [] r.response_type \in {"SessionFinished", "Error"} ->
           [cb |-> <<>>, calls |-> <<>>, last_text |-> baseline, break |-> TRUE]
      [] OTHER ->
           [cb |-> <<>>, calls |-> <<>>, last_text |-> baseline, break |-> FALSE]

\* handle_response with the callback moved inside the non-empty test.
handle_response_cb_nonempty(r, baseline, del_ok, ins_ok) ==
    CASE r.response_type = "InterimResult" ->
           [cb |-> IF r.text # <<>> THEN <<[text |-> r.text, is_final |-> FALSE]>> ELSE <<>>,
            calls |-> IF r.text # <<>>
                      THEN update_text(baseline, r.text, del_ok, ins_ok) ELSE <<>>,
            last_text |-> IF r.text # <<>> THEN r.text ELSE baseline,
            break |-> FALSE]
      [] r.response_type = "FinalResult" ->
           [cb |-> IF r.text # <<>> THEN <<[text |-> r.text, is_final |-> TRUE]>> ELSE <<>>,
            calls |-> IF r.text # <<>>
                      THEN update_text(baseline, r.text, del_ok, ins_ok) ELSE <<>>,
            last_text |-> IF r.text # <<>> THEN <<>> ELSE baseline,
            break |-> FALSE]
      [] r.response_type \in {"SessionFinished", "Error"} ->
           [cb |-> <<>>, calls |-> <<>>, last_text |-> baseline, break |-> TRUE]
      [] OTHER ->
           [cb |-> <<>>, calls |-> <<>>, last_text |-> baseline, break |-> FALSE]

\* handle_response with the Error arm falling through to the next iteration
\* (no `break`).
handle_response_error_continues(r, baseline, del_ok, ins_ok) ==
    CASE r.response_type = "InterimResult" ->
           [cb |-> <<[text |-> r.text, is_final |-> FALSE]>>,
            calls |-> IF r.text # <<>>
                      THEN update_text(baseline, r.text, del_ok, ins_ok) ELSE <<>>,
            last_text |-> IF r.text # <<>> THEN r.text ELSE baseline,
            break |-> FALSE]
      [] r.response_type = "FinalResult" ->
           [cb |-> <<[text |-> r.text, is_final |-> TRUE]>>,
            calls |-> IF r.text # <<>>
                      THEN update_text(baseline, r.text, del_ok, ins_ok) ELSE <<>>,
            last_text |-> IF r.text # <<>> THEN <<>> ELSE baseline,
            break |-> FALSE]
      [] r.response_type = "SessionFinished" ->
           [cb |-> <<>>, calls |-> <<>>, last_text |-> baseline, break |-> TRUE]
      [] OTHER ->
           [cb |-> <<>>, calls |-> <<>>, last_text |-> baseline, break |-> FALSE]

\* handle_response leaving the loop when a TextInserter call has failed.
handle_response_fail_breaks(r, baseline, del_ok, ins_ok) ==
    LET calls == IF r.response_type \in {"InterimResult", "FinalResult"} /\ r.text # <<>>
                 THEN update_text(baseline, r.text, del_ok, ins_ok) ELSE <<>>
    IN  CASE r.response_type = "InterimResult" ->
               [cb |-> <<[text |-> r.text, is_final |-> FALSE]>>,
                calls |-> calls,
                last_text |-> IF r.text # <<>> THEN r.text ELSE baseline,
                break |-> \E i \in DOMAIN calls : ~calls[i].ok]
          [] r.response_type = "FinalResult" ->
               [cb |-> <<[text |-> r.text, is_final |-> TRUE]>>,
                calls |-> calls,
                last_text |-> IF r.text # <<>> THEN <<>> ELSE baseline,
                break |-> \E i \in DOMAIN calls : ~calls[i].ok]
          [] r.response_type \in {"SessionFinished", "Error"} ->
               [cb |-> <<>>, calls |-> <<>>, last_text |-> baseline, break |-> TRUE]
          [] OTHER ->
               [cb |-> <<>>, calls |-> <<>>, last_text |-> baseline, break |-> FALSE]

\* handle_response leaving the loop on a response of any other type (the
\* `_` arm with a `break`).
handle_response_other_breaks(r, baseline, del_ok, ins_ok) ==
    CASE r.response_type = "InterimResult" ->
           [cb |-> <<[text |-> r.text, is_final |-> FALSE]>>,
            calls |-> IF r.text # <<>>
                      THEN update_text(baseline, r.text, del_ok, ins_ok) ELSE <<>>,
            last_text |-> IF r.text # <<>> THEN r.text ELSE baseline,
            break |-> FALSE]
      [] r.response_type = "FinalResult" ->
           [cb |-> <<[text |-> r.text, is_final |-> TRUE]>>,
            calls |-> IF r.text # <<>>
                      THEN update_text(baseline, r.text, del_ok, ins_ok) ELSE <<>>,
            last_text |-> IF r.text # <<>> THEN <<>> ELSE baseline,
            break |-> FALSE]
      [] OTHER ->
           [cb |-> <<>>, calls |-> <<>>, last_text |-> baseline, break |-> TRUE]

\* What the worker does with one response: the callback invocations, the
\* TextInserter calls, the new baseline and whether the loop is left.
handle_response(r, baseline, del_ok, ins_ok) ==
    CASE r.response_type = "InterimResult" ->
           [cb |-> <<[text |-> r.text, is_final |-> FALSE]>>,
            calls |-> IF r.text # <<>>
                      THEN update_text(baseline, r.text, del_ok, ins_ok) ELSE <<>>,
            last_text |-> IF r.text # <<>> THEN r.text ELSE baseline,
            break |-> FALSE]
      [] r.response_type = "FinalResult" ->
           [cb |-> <<[text |-> r.text, is_final |-> TRUE]>>,
            calls |-> IF r.text # <<>>
                      THEN update_text(baseline, r.text, del_ok, ins_ok) ELSE <<>>,
            last_text |-> IF r.text # <<>> THEN <<>> ELSE baseline,
            break |-> FALSE]
      [] r.response_type \in {"SessionFinished", "Error"} ->
           [cb |-> <<>>, calls |-> <<>>, last_text |-> baseline, break |-> TRUE]
      [] OTHER ->
           [cb |-> <<>>, calls |-> <<>>, last_text |-> baseline, break |-> FALSE]

\* timeout(100ms, result_rx.recv()) returned Ok(Some(response)). Oks: the
\* results the platform's delete_chars and insert may give.
WorkerResponse(s, Oks) ==
    /\ worker[s] = "recv"
    /\ result_rx[s] # <<>>
    /\ \E del_ok, ins_ok \in Oks :
         LET r == Head(result_rx[s])
             h == handle_response(r, last_text[s], del_ok, ins_ok)
         IN  /\ received' = [received EXCEPT ![s] = Append(@, r)]
             /\ on_result' = [on_result EXCEPT ![s] = @ \o h.cb]
             /\ inserter_calls' = [inserter_calls EXCEPT ![s] = @ \o h.calls]
             /\ last_text' = [last_text EXCEPT ![s] = h.last_text]
             /\ worker' = [worker EXCEPT ![s] = IF h.break THEN "stop_capture" ELSE "check"]
    /\ result_rx' = [result_rx EXCEPT ![s] = Tail(@)]
    /\ UNCHANGED <<flagvars, ctlvars, capture_thread, rx_closed, delivered, dvars, xvars>>

\* ... returned Ok(None): the channel is closed and empty.
WorkerChannelClosed(s) ==
    /\ worker[s] = "recv"
    /\ result_rx[s] = <<>>
    /\ rx_closed[s]
    /\ worker' = [worker EXCEPT ![s] = "stop_capture"]
    /\ UNCHANGED <<flagvars, ctlvars, capture_thread, streamvars, logvars, dvars, xvars>>

\* ... returned Err(_): the wait timed out, `continue`.
WorkerTimeout(s) ==
    /\ worker[s] = "recv"
    /\ result_rx[s] = <<>>
    /\ ~rx_closed[s]
    /\ worker' = [worker EXCEPT ![s] = "check"]
    /\ UNCHANGED <<flagvars, ctlvars, capture_thread, streamvars, logvars, dvars, xvars>>

\* The cleanup without its audio_capture.stop().
WorkerStopCapture_skipped(s) ==
    /\ worker[s] = "stop_capture"
    /\ worker' = [worker EXCEPT ![s] = "clear_flag"]
    /\ UNCHANGED <<flagvars, ctlvars, capture_thread, streamvars, logvars, dvars, xvars>>

\* Cleanup, first statement: audio_capture.stop().
WorkerStopCapture(s) ==
    /\ worker[s] = "stop_capture"
    /\ AudioCaptureStop
    /\ worker' = [worker EXCEPT ![s] = "clear_flag"]
    /\ UNCHANGED <<is_recording, stop_signal, ctlvars, capture_thread,
                   streamvars, logvars, dvars, xvars>>

\* Cleanup, second statement: is_recording.store(false). The task ends and
\* drops result_rx: what is still queued is discarded with the channel.
WorkerClearFlag(s) ==
    /\ worker[s] = "clear_flag"
    /\ is_recording' = FALSE
    /\ worker' = [worker EXCEPT ![s] = "done"]
    /\ result_rx' = [result_rx EXCEPT ![s] = <<>>]
    /\ rx_closed' = [rx_closed EXCEPT ![s] = TRUE]
    /\ UNCHANGED <<stop_signal, cap_is_recording, ctlvars, capture_thread,
                   delivered, logvars, dvars, xvars>>

\* ------------------------------------------------ the recognition session
WorkerAlive(s) == worker[s] \notin {"none", "done"}

CaptureAlive(s) == capture_thread[s] \notin {"none", "done"}

\* The session sends one response of R on the stream of a live worker.
AsrDeliver(s, R) ==
    /\ WorkerAlive(s)
    /\ ~rx_closed[s]
    /\ delivered < MaxFragments
    /\ \E r \in R : result_rx' = [result_rx EXCEPT ![s] = Append(@, r)]
    /\ delivered' = delivered + 1
    /\ UNCHANGED <<flagvars, ctlvars, capture_thread, worker, rx_closed,
                   logvars, dvars, xvars>>

\* The session ends: it sends SessionFinished or Error as the last response
\* of the stream and drops the sender.
AsrSessionEnd(s) ==
    /\ WorkerAlive(s)
    /\ ~rx_closed[s]
    /\ \E r \in EndResponses : result_rx' = [result_rx EXCEPT ![s] = Append(@, r)]
    /\ rx_closed' = [rx_closed EXCEPT ![s] = TRUE]
    /\ UNCHANGED <<flagvars, ctlvars, capture_thread, worker, delivered,
                   logvars, dvars, xvars>>

\* The session drops the sender of the stream without a last response.
AsrClose(s) ==
    /\ WorkerAlive(s)
    /\ ~rx_closed[s]
    /\ rx_closed' = [rx_closed EXCEPT ![s] = TRUE]
    /\ UNCHANGED <<flagvars, ctlvars, capture_thread, worker, result_rx,
                   delivered, logvars, dvars, xvars>>

\* ---------------------------------------------------------- specification
\* Controller calls, workers, capture threads and recognition sessions of up
\* to MaxSessions sessions, in every interleaving.
Next ==
    \/ CallStart
    \/ CallStop
    \/ CallToggle
    \/ StartConnected
    \/ StartConnectFailed
    \/ StopFinish
    \/ \E s \in Sessions : WorkerCheckStop(s)
    \/ \E s \in Sessions : WorkerResponse(s, {TRUE})
    \/ \E s \in Sessions : WorkerChannelClosed(s)
    \/ \E s \in Sessions : WorkerTimeout(s)
    \/ \E s \in Sessions : WorkerStopCapture(s)
    \/ \E s \in Sessions : WorkerClearFlag(s)
    \/ \E s \in Sessions : CaptureLoopExit(s)
    \/ \E s \in Sessions : CaptureFault(s)
    \/ \E s \in Sessions : CaptureThreadExit(s)
    \/ \E s \in Sessions : AsrSessionEnd(s)
    \/ \E s \in Sessions : AsrClose(s)

Spec == Init /\ [][Next]_vars

\* One recording session with the full response alphabet and a TextInserter
\* whose calls may fail: what the worker does with the stream it consumes.
StartOnce == nsess = 0 /\ CallStart

NextWorker ==
    \/ StartOnce
    \/ CallStop
    \/ StartConnected
    \/ StopFinish
    \/ WorkerCheckStop(1)
    \/ WorkerResponse(1, BOOLEAN)
    \/ WorkerChannelClosed(1)
    \/ WorkerTimeout(1)
    \/ WorkerStopCapture(1)
    \/ WorkerClearFlag(1)
    \/ CaptureLoopExit(1)
    \/ CaptureThreadExit(1)
    \/ AsrDeliver(1, Responses)
    \/ AsrClose(1)

SpecWorker == Init /\ [][NextWorker]_vars

\* update_text on every pair of texts of at most MaxLen characters.
InitDiff ==
    /\ InitVC
    /\ d_old \in TextsUpTo(MaxLen)
    /\ d_new \in TextsUpTo(MaxLen)
    /\ d_pc = "input"
    /\ d_kept = 0
    /\ d_deleted = 0
    /\ d_appended = <<>>
    /\ d_calls = <<>>
    /\ InitCapture
    /\ InitVolumeIdle
    /\ InitHotkey
    /\ InitQuery
    /\ InitMore

\* One call of update_text(text_inserter, d_old, d_new), with what its last
\* statement logs: kept, deleted, appended.
UpdateText ==
    /\ d_pc = "input"
    /\ d_kept' = common_prefix_len(d_old, d_new)
    /\ d_deleted' = chars_to_delete(d_old, d_new)
    /\ d_appended' = text_to_append(d_old, d_new)
    /\ \E del_ok, ins_ok \in BOOLEAN :
         d_calls' = update_text(d_old, d_new, del_ok, ins_ok)
    /\ d_pc' = "done"
    /\ UNCHANGED <<d_old, d_new, flagvars, ctlvars, capture_thread, worker,
                   streamvars, logvars, xvars>>

NextDiff == UpdateText

SpecDiff == InitDiff /\ [][NextDiff]_vars

\* ------------------------------------------- AudioCapture on its own
\* AudioCapture called directly: start and stop in any order, the capture
\* threads start spawns (thread s is the one spawned by the s-th successful
\* start, nsess counts them), the device, and the receiver of the frames.
VolumeDivisor == 100
VolumeMax == 100

\* The frames the device callback hands over in SpecCapture: interleaved
\* 16-bit samples of a loud stereo signal (SpecVolume goes through the rest).
CaptureFrames == {[channels |-> 2, samples |-> <<32767, 32767>>]}

\* i32 division: the quotient is truncated towards zero.
TruncDiv(a, b) == IF a >= 0 THEN a \div b ELSE -((-a) \div b)

RECURSIVE SumSeq(_)
SumSeq(q) == IF q = <<>> THEN 0 ELSE Head(q) + SumSeq(Tail(q))

\* Step 1 of the loop: the channels of every sample position averaged.
mono_frame(frame, native_channels) ==
    IF native_channels > 1
    THEN [i \in 1..(Len(frame) \div native_channels) |->
            TruncDiv(SumSeq(SubSeq(frame, (i - 1) * native_channels + 1,
                                   i * native_channels)),
                     native_channels)]
    ELSE frame

\* rms >= 100 k, rms being the square root of sum_sq / len: the comparison
\* sum_sq >= len * (100 k)^2, made on the quotients and remainders of the
\* squares by 100^2 so that no intermediate value leaves 32 bits. (The code
\* works in f64, where sum_sq is exact and the roundings of the division and
\* the square root are far smaller than the distance of sum_sq / len from
\* the nearest (100 k)^2 it does not equal.)
rms_at_least(frame, k) ==
    LET d2 == VolumeDivisor * VolumeDivisor
        n == Len(frame)
        hi == SumSeq([i \in DOMAIN frame |-> (frame[i] * frame[i]) \div d2])
        lo == SumSeq([i \in DOMAIN frame |-> (frame[i] * frame[i]) % d2])
        m == n * k * k - hi
    IN  m <= 0 \/ (m <= n /\ m * d2 <= lo)

\* rms / 100.0 truncated to an integer (rms is 0.0 for an empty frame).
rms_over_divisor(frame) ==
    IF frame = <<>> THEN 0
    ELSE CHOOSE k \in 0..(32768 \div VolumeDivisor) :
             rms_at_least(frame, k) /\ ~rms_at_least(frame, k + 1)

\* The level without the `.min(100.0)`.
vol_uncapped(frame) == rms_over_divisor(frame)

\* let vol = (rms / 100.0).min(100.0) as u32
vol(frame) == Min(rms_over_divisor(frame), VolumeMax)

\* tokio_tx.try_send without the channel's bound.
try_send_unbounded(ch, frame) == Append(ch, frame)

\* tokio_tx.try_send(opus_frame): queued if the channel has room, otherwise
\* an error, on which the loop only prints and drops the frame.
try_send(ch, frame) == IF Len(ch) < ChannelCapacity THEN Append(ch, frame) ELSE ch

\* AudioCapture::start without the test of the flag it swaps.
AudioCaptureStart_unguarded ==
    /\ a_op' = "start"
    /\ nsess < MaxSessions
    /\ cap_is_recording' = TRUE
    /\ nsess' = nsess + 1
    /\ capture_thread' = [capture_thread EXCEPT ![nsess + 1] = "setup"]
    /\ a_ret' = "ok"
    /\ UNCHANGED <<is_recording, stop_signal, ctl_pc, op, ret, worker,
                   streamvars, logvars, dvars, cap_fault, frame_counter,
                   tokio_ch, audio_rx, captured, current_volume, vvars,
                   hvars, qvars, yvars>>

\* start reading the flag with load() and storing nothing (no swap).
audio_capture_start_load_only ==
    /\ a_op' = "start"
    /\ IF cap_is_recording
       THEN /\ a_ret' = "err"
            /\ UNCHANGED <<cap_is_recording, nsess, capture_thread>>
       ELSE /\ nsess < MaxSessions
            /\ nsess' = nsess + 1
            /\ capture_thread' = [capture_thread EXCEPT ![nsess + 1] = "setup"]
            /\ a_ret' = "ok"
            /\ UNCHANGED cap_is_recording

\* AudioCapture::start: swap(true) on the flag; "Already recording" if it was
\* set, otherwise a new frame channel and a new thread, and Ok(tokio_rx).
audio_capture_start ==
    /\ a_op' = "start"
    /\ IF cap_is_recording
       THEN /\ a_ret' = "err"
            /\ UNCHANGED <<cap_is_recording, nsess, capture_thread>>
       ELSE /\ nsess < MaxSessions
            /\ cap_is_recording' = TRUE
            /\ nsess' = nsess + 1
            /\ capture_thread' = [capture_thread EXCEPT ![nsess + 1] = "setup"]
            /\ a_ret' = "ok"

\* ... called by the owner alone.
AudioCaptureStart ==
    /\ audio_capture_start
    /\ UNCHANGED <<is_recording, stop_signal, ctl_pc, op, ret, worker,
                   streamvars, logvars, dvars, cap_fault, frame_counter,
                   tokio_ch, audio_rx, captured, current_volume, vvars,
                   hvars, qvars, yvars>>

\* AudioCapture::stop called by the owner.
AudioCaptureStopCall ==
    /\ a_op' = "stop"
    /\ a_ret' = "ok"
    /\ AudioCaptureStop
    /\ UNCHANGED <<is_recording, stop_signal, ctlvars, capture_thread, worker,
                   streamvars, logvars, dvars, cap_fault, frame_counter,
                   tokio_ch, audio_rx, captured, current_volume, vvars,
                   hvars, qvars, yvars>>

\* run_audio_capture up to its loop: device, configuration, encoder and
\* stream are set up and the stream plays.
CaptureSetupOk(s) ==
    /\ capture_thread[s] = "setup"
    /\ capture_thread' = [capture_thread EXCEPT ![s] = "run"]
    /\ UNCHANGED <<flagvars, ctlvars, worker, streamvars, logvars, dvars, xvars>>

\* The ways run_audio_capture returns an error before its loop.
SetupFaults == {"no_device", "config", "encoder"}

\* ... one of them fails: run_audio_capture returns Err inside the thread.
CaptureSetupFail(s) ==
    /\ capture_thread[s] = "setup"
    /\ \E f \in SetupFaults : cap_fault' = [cap_fault EXCEPT ![s] = f]
    /\ capture_thread' = [capture_thread EXCEPT ![s] = "exiting"]
    /\ UNCHANGED <<flagvars, ctlvars, worker, streamvars, logvars, dvars, a_op,
                   a_ret, frame_counter, tokio_ch, audio_rx, captured,
                   current_volume, vvars, hvars, qvars, yvars>>

\* `while is_recording.load()` finds the flag set: recv_timeout(100 ms).
CaptureLoopTest(s) ==
    /\ capture_thread[s] = "run"
    /\ cap_is_recording
    /\ capture_thread' = [capture_thread EXCEPT ![s] = "wait"]
    /\ UNCHANGED <<flagvars, ctlvars, worker, streamvars, logvars, dvars, xvars>>

\* recv_timeout never returning without a frame (a plain recv()).
CaptureRecvTimeout_blocking(s) ==
    /\ capture_thread[s] = "wait"
    /\ FALSE
    /\ UNCHANGED vars

\* recv_timeout returned Err(Timeout): no frame within the interval.
CaptureRecvTimeout(s) ==
    /\ capture_thread[s] = "wait"
    /\ capture_thread' = [capture_thread EXCEPT ![s] = "run"]
    /\ UNCHANGED <<flagvars, ctlvars, worker, streamvars, logvars, dvars, xvars>>

\* recv_timeout returned Ok(frame): the level is stored, the frame encoded
\* and, if the encoder gave a frame, counted and offered to the channel.
CaptureRecvFrame(s) ==
    /\ capture_thread[s] = "wait"
    /\ captured < MaxFrames
    /\ captured' = captured + 1
    /\ \E f \in CaptureFrames :
         current_volume' = vol(mono_frame(f.samples, f.channels))
    /\ \E encode_ok \in BOOLEAN :
         IF encode_ok
         THEN /\ frame_counter' = [frame_counter EXCEPT ![s] = @ + 1]
              /\ tokio_ch' = [tokio_ch EXCEPT ![s] = try_send(@, frame_counter[s])]
         ELSE UNCHANGED <<frame_counter, tokio_ch>>
    /\ capture_thread' = [capture_thread EXCEPT ![s] = "run"]
    /\ UNCHANGED <<flagvars, ctlvars, worker, streamvars, logvars, dvars, a_op,
                   a_ret, cap_fault, audio_rx, vvars, hvars, qvars, yvars>>

\* A panic while a frame is processed: catch_unwind returns Err.
CapturePanic(s) ==
    /\ capture_thread[s] = "wait"
    /\ cap_fault' = [cap_fault EXCEPT ![s] = "panic"]
    /\ capture_thread' = [capture_thread EXCEPT ![s] = "exiting"]
    /\ UNCHANGED <<flagvars, ctlvars, worker, streamvars, logvars, dvars, a_op,
                   a_ret, frame_counter, tokio_ch, audio_rx, captured,
                   current_volume, vvars, hvars, qvars, yvars>>

\* The holder of tokio_rx (the recognition session) takes the next frame.
FrameReceive(s) ==
    /\ tokio_ch[s] # <<>>
    /\ audio_rx' = [audio_rx EXCEPT ![s] = Append(@, Head(tokio_ch[s]))]
    /\ tokio_ch' = [tokio_ch EXCEPT ![s] = Tail(@)]
    /\ UNCHANGED <<flagvars, ctlvars, capture_thread, worker, streamvars,
                   logvars, dvars, a_op, a_ret, cap_fault, frame_counter,
                   captured, current_volume, vvars, hvars, qvars, yvars>>

NextCapture ==
    \/ AudioCaptureStart
    \/ AudioCaptureStopCall
    \/ \E s \in Sessions : CaptureSetupOk(s)
    \/ \E s \in Sessions : CaptureSetupFail(s)
    \/ \E s \in Sessions : CaptureLoopTest(s)
    \/ \E s \in Sessions : CaptureLoopExit(s)
    \/ \E s \in Sessions : CaptureRecvTimeout(s)
    \/ \E s \in Sessions : CaptureRecvFrame(s)
    \/ \E s \in Sessions : CapturePanic(s)
    \/ \E s \in Sessions : CaptureThreadExit(s)
    \/ \E s \in Sessions : FrameReceive(s)

SpecCapture == Init /\ [][NextCapture]_vars

\* Every spawned thread runs, and recv_timeout returns after its interval.
FairnessCapture ==
    \A s \in Sessions :
        /\ WF_vars(CaptureSetupOk(s))
        /\ WF_vars(CaptureLoopTest(s))
        /\ WF_vars(CaptureLoopExit(s))
        /\ WF_vars(CaptureRecvTimeout(s))
        /\ WF_vars(CaptureThreadExit(s))

FairSpecCapture == SpecCapture /\ FairnessCapture

\* The level of every frame of at most MaxSamples samples per channel.
SampleValues == {-32768, -10000, -100, -1, 0, 1, 99, 100, 9999, 10000, 32767}

FramesUpTo(n) == UNION {[1..k -> SampleValues] : k \in 1..n}

InitVolume ==
    /\ InitVC
    /\ InitDiffIdle
    /\ InitCapture
    /\ InitHotkey
    /\ InitQuery
    /\ InitMore
    /\ v_channels \in {1, 2}
    /\ v_frame \in {f \in FramesUpTo(MaxSamples) : Len(f) % v_channels = 0}
    /\ v_pc = "input"

\* The loop's steps 1 and "Calculate RMS Volume" on the frame, and the store.
StoreVolume ==
    /\ v_pc = "input"
    /\ current_volume' = vol(mono_frame(v_frame, v_channels))
    /\ v_pc' = "done"
    /\ UNCHANGED <<flagvars, ctlvars, capture_thread, worker, streamvars,
                   logvars, dvars, a_op, a_ret, cap_fault, frame_counter,
                   tokio_ch, audio_rx, captured, v_frame, v_channels,
                   hvars, qvars, yvars>>

\* get_volume()
get_volume == current_volume

NextVolume == StoreVolume

SpecVolume == InitVolume /\ [][NextVolume]_vars

\* ------------------------------------------------------------ the hotkey
\* HotkeyManager over MacosHotkeyProvider. The rest of the program does not
\* move here.
nonhotkey == <<flagvars, ctlvars, capture_thread, worker, streamvars, logvars,
               dvars, avars, vvars, qvars, yvars>>

\* The configurations given to update_config: double-tap of a modifier key,
\* a chord (mode "combo", whose double_tap_key is the default one), and
\* double-tap of a key name the provider does not know. All recognised
\* double_tap_key values stand for the same key.
Configs == {"double_tap", "combo", "bad_key"}

\* target_mask != 0: the listener thread knows the configuration's
\* double_tap_key. (mode and combo_key are not read.)
target_mask_known(config) == config \in {"double_tap", "combo"}

\* now.duration_since(t) <= interval, for the distance classes of a tap from
\* the one before: below the interval, exactly at it, above it.
Gaps == {"below", "at", "above"}

within_interval(gap) == gap \in {"below", "at"}

\* The monitor's block with `<` for `<=`.
monitor_block_strict(st, cb, active, gap) ==
    IF ~active THEN st
    ELSE IF st.last = "now" \/ (st.last = "prev" /\ gap = "below")
         THEN [last |-> "none", invoked |-> Append(st.invoked, cb)]
         ELSE [last |-> "now", invoked |-> st.invoked]

\* The monitor's block without its `*last = None` after the callback.
monitor_block_keeps_pending(st, cb, active, gap) ==
    IF ~active THEN st
    ELSE IF st.last = "now" \/ (st.last = "prev" /\ within_interval(gap))
         THEN [last |-> "now", invoked |-> Append(st.invoked, cb)]
         ELSE [last |-> "now", invoked |-> st.invoked]

\* The event monitor's block on a key event whose modifier flag is set. st:
\* LAST_PRESS ("none", "prev" for an earlier time, "now" for the time of
\* this event) and the callbacks invoked. gap: the distance of this event
\* from the earlier time.
monitor_block(st, cb, active, gap) ==
    IF ~active THEN st
    ELSE IF st.last = "now" \/ (st.last = "prev" /\ within_interval(gap))
         THEN [last |-> "none", invoked |-> Append(st.invoked, cb)]
         ELSE [last |-> "now", invoked |-> st.invoked]

\* The blocks of the installed monitors run on one event, one after another
\* on the thread that delivers it, all on the same LAST_PRESS.
RECURSIVE run_monitor_blocks(_, _, _)
run_monitor_blocks(ms, st, gap) ==
    IF ms = <<>> THEN st
    ELSE run_monitor_blocks(Tail(ms),
                            monitor_block(st, Head(ms).cb,
                                          hk_is_active[Head(ms).p], gap),
                            gap)

\* The orders in which the system may call the monitors.
Orders(q) ==
    {[i \in DOMAIN q |-> q[f[i]]] :
        f \in {g \in [DOMAIN q -> DOMAIN q] : \A i, j \in DOMAIN q : g[i] = g[j] => i = j}}

\* removeMonitor of the monitor in p's monitor_handle.
Remove(q, p) == SelectSeq(q, LAMBDA m : m.id # hk_monitor_handle[p])

\* HotkeyManager::on_trigger(callback), first half: under the callback lock
\* the callback is stored, replacing the one before.
HotkeyOnTriggerStore ==
    /\ hk_registered < MaxCallbacks
    /\ hk_registered' = hk_registered + 1
    /\ hk_callback' = hk_registered + 1
    /\ hk_binding' = hk_binding \cup {hk_registered + 1}
    /\ UNCHANGED <<hk_op, hk_ret, hk_provider, hk_config, hk_is_active,
                   hk_monitor_handle, hk_spawned, hk_starting, hk_monitors,
                   hk_last_press, hk_tap, hk_gaps, hk_events, hk_elapsed,
                   hk_invoked, nonhotkey>>

\* ... second half: under the provider lock the callback is bound to the
\* provider then in place, whose on_trigger spawns a listener thread for it.
HotkeyOnTriggerBind(cb) ==
    /\ cb \in hk_binding
    /\ hk_binding' = hk_binding \ {cb}
    /\ hk_spawned' = hk_spawned + 1
    /\ hk_starting' = hk_starting \cup {[id |-> hk_spawned + 1, p |-> hk_provider, cb |-> cb]}
    /\ hk_op' = "on_trigger"
    /\ hk_ret' = "ok"
    /\ UNCHANGED <<hk_callback, hk_registered, hk_provider, hk_config,
                   hk_is_active, hk_monitor_handle, hk_monitors, hk_last_press,
                   hk_tap, hk_gaps, hk_events, hk_elapsed, hk_invoked, nonhotkey>>

\* The listener thread: unless its provider's key is unknown (it returns),
\* it adds a global monitor for its callback and stores the monitor in the
\* provider's monitor_handle, over whichever was stored there.
HotkeyListenerStart(l) ==
    /\ l \in hk_starting
    /\ hk_starting' = hk_starting \ {l}
    /\ IF target_mask_known(hk_config[l.p])
       THEN /\ hk_monitors' = Append(hk_monitors,
                                     [id |-> l.id, p |-> l.p, cb |-> l.cb,
                                      since |-> hk_events])
            /\ hk_monitor_handle' = [hk_monitor_handle EXCEPT ![l.p] = l.id]
       ELSE UNCHANGED <<hk_monitors, hk_monitor_handle>>
    /\ UNCHANGED <<hk_callback, hk_registered, hk_binding, hk_op, hk_ret,
                   hk_provider, hk_config, hk_is_active, hk_spawned,
                   hk_last_press, hk_tap, hk_gaps, hk_events, hk_elapsed,
                   hk_invoked, nonhotkey>>

\* stop() flipping is_active instead of clearing it.
HotkeyStop_toggles ==
    /\ hk_is_active' = [hk_is_active EXCEPT ![hk_provider] = ~@]
    /\ hk_monitors' = Remove(hk_monitors, hk_provider)
    /\ hk_monitor_handle' = [hk_monitor_handle EXCEPT ![hk_provider] = 0]
    /\ hk_op' = "stop"
    /\ hk_ret' = "ok"
    /\ UNCHANGED <<hk_callback, hk_registered, hk_binding, hk_provider,
                   hk_config, hk_spawned, hk_starting, hk_last_press, hk_tap,
                   hk_gaps, hk_events, hk_elapsed, hk_invoked, nonhotkey>>

\* HotkeyManager::stop, MacosHotkeyProvider::stop: is_active cleared and the
\* monitor of monitor_handle removed.
HotkeyStop ==
    /\ hk_is_active' = [hk_is_active EXCEPT ![hk_provider] = FALSE]
    /\ hk_monitors' = Remove(hk_monitors, hk_provider)
    /\ hk_monitor_handle' = [hk_monitor_handle EXCEPT ![hk_provider] = 0]
    /\ hk_op' = "stop"
    /\ hk_ret' = "ok"
    /\ UNCHANGED <<hk_callback, hk_registered, hk_binding, hk_provider,
                   hk_config, hk_spawned, hk_starting, hk_last_press, hk_tap,
                   hk_gaps, hk_events, hk_elapsed, hk_invoked, nonhotkey>>

\* HotkeyManager::update_config(config), all of it under the provider lock:
\* the old provider is stopped, the new one constructed (the macOS provider
\* is constructed from any configuration), the stored callback bound to it
\* (a listener thread is spawned), and the new one put in the old one's
\* place (the old one is dropped, which stops it again).
HotkeyUpdateConfig(config) ==
    /\ hk_provider < MaxUpdates + 1
    /\ hk_provider' = hk_provider + 1
    /\ hk_config' = [hk_config EXCEPT ![hk_provider + 1] = config]
    /\ hk_is_active' = [hk_is_active EXCEPT ![hk_provider] = FALSE,
                                            ![hk_provider + 1] = TRUE]
    /\ hk_monitors' = Remove(hk_monitors, hk_provider)
    /\ hk_monitor_handle' = [hk_monitor_handle EXCEPT ![hk_provider] = 0]
    /\ IF hk_callback # 0
       THEN /\ hk_spawned' = hk_spawned + 1
            /\ hk_starting' = hk_starting \cup
                   {[id |-> hk_spawned + 1, p |-> hk_provider + 1, cb |-> hk_callback]}
       ELSE UNCHANGED <<hk_spawned, hk_starting>>
    /\ hk_op' = "update_config"
    /\ hk_ret' = "ok"
    /\ UNCHANGED <<hk_callback, hk_registered, hk_binding, hk_last_press,
                   hk_tap, hk_gaps, hk_events, hk_elapsed, hk_invoked, nonhotkey>>

\* update_config starting the old provider again when the construction of
\* the new one has failed.
HotkeyUpdateConfigFailed_restarts ==
    /\ hk_op' = "update_config"
    /\ hk_ret' = "err"
    /\ hk_is_active' = [hk_is_active EXCEPT ![hk_provider] = TRUE]
    /\ UNCHANGED <<hk_callback, hk_registered, hk_binding, hk_provider,
                   hk_config, hk_monitors, hk_monitor_handle, hk_spawned,
                   hk_starting, hk_last_press, hk_tap, hk_gaps, hk_events,
                   hk_elapsed, hk_invoked, nonhotkey>>

\* update_config when PlatformFactory::create_hotkey_provider returns Err
\* (the Windows provider's construction does, on a spec it cannot parse or a
\* registration the system refuses): the old provider has been stopped, `?`
\* returns the error.
HotkeyUpdateConfigFailed ==
    /\ hk_op' = "update_config"
    /\ hk_ret' = "err"
    /\ hk_is_active' = [hk_is_active EXCEPT ![hk_provider] = FALSE]
    /\ hk_monitors' = Remove(hk_monitors, hk_provider)
    /\ hk_monitor_handle' = [hk_monitor_handle EXCEPT ![hk_provider] = 0]
    /\ UNCHANGED <<hk_callback, hk_registered, hk_binding, hk_provider,
                   hk_config, hk_spawned, hk_starting, hk_last_press, hk_tap,
                   hk_gaps, hk_events, hk_elapsed, hk_invoked, nonhotkey>>

\* The distances a tap may have from a tap before the previous one, when its
\* distance from the previous one is gap: no shorter.
AtLeast(gap) ==
    CASE gap = "below" -> Gaps
      [] gap = "at" -> {"at", "above"}
      [] OTHER -> {"above"}

\* The user taps the double-tap key, at distance gap from the tap before (the
\* first tap has none before it): the second of two taps within the interval
\* is a trigger. Every installed monitor's block runs on the event, the first
\* of them with the tap's distance from the time in LAST_PRESS. A time left
\* in LAST_PRESS by a tap that no block has seen since is an older one.
KeyEvent(gap, elapsed) ==
    /\ hk_events < MaxKeyEvents
    /\ hk_gaps = <<>> => gap = "above"
    /\ elapsed = CASE hk_last_press = "none" -> "none"
                   [] hk_last_press = "prev" -> gap
                   [] OTHER -> elapsed
    /\ hk_last_press = "old" => elapsed \in AtLeast(gap)
    /\ hk_events' = hk_events + 1
    /\ hk_gaps' = Append(hk_gaps, gap)
    /\ hk_elapsed' = elapsed
    /\ hk_tap' = IF hk_tap = "one" /\ within_interval(gap) THEN "none" ELSE "one"
    /\ \E order \in Orders(hk_monitors) :
         LET st == run_monitor_blocks(order,
                                      [last |-> IF hk_last_press = "none"
                                                THEN "none" ELSE "prev",
                                       invoked |-> hk_invoked],
                                      elapsed)
             ran == \E i \in DOMAIN hk_monitors : hk_is_active[hk_monitors[i].p]
         IN  /\ hk_last_press' = IF ~ran
                                 THEN (IF hk_last_press = "none" THEN "none" ELSE "old")
                                 ELSE IF st.last = "now" THEN "prev" ELSE st.last
             /\ hk_invoked' = st.invoked
    /\ UNCHANGED <<hk_callback, hk_registered, hk_binding, hk_op, hk_ret,
                   hk_provider, hk_config, hk_is_active, hk_monitor_handle,
                   hk_spawned, hk_starting, hk_monitors, nonhotkey>>

\* The user presses the chord of a combo configuration (a chord without the
\* double-tap key, such as Alt+V): the flags of its events do not have the
\* target mask, so no monitor's block goes past its test, and the provider
\* has no other listener.
ChordEvent ==
    /\ hk_events < MaxKeyEvents
    /\ hk_events' = hk_events + 1
    /\ UNCHANGED <<hk_callback, hk_registered, hk_binding, hk_op, hk_ret,
                   hk_provider, hk_config, hk_is_active, hk_monitor_handle,
                   hk_spawned, hk_starting, hk_monitors, hk_last_press, hk_tap,
                   hk_gaps, hk_elapsed, hk_invoked, nonhotkey>>

NextHotkey ==
    \/ HotkeyOnTriggerStore
    \/ \E cb \in 1..MaxCallbacks : HotkeyOnTriggerBind(cb)
    \/ \E l \in hk_starting : HotkeyListenerStart(l)
    \/ HotkeyStop
    \/ \E config \in Configs : HotkeyUpdateConfig(config)
    \/ HotkeyUpdateConfigFailed
    \/ \E gap \in Gaps, elapsed \in Gaps \cup {"none"} : KeyEvent(gap, elapsed)
    \/ ChordEvent

SpecHotkey == Init /\ [][NextHotkey]_vars

\* ---------------------------------------------------- the monitoring loops
\* The loops that ask the controller whether it is recording, beside the
\* calls that hold the controller's lock (a tokio Mutex) from their first
\* step to their return.
LockHeld == ctl_pc # "idle"

Status == IF is_recording THEN "recording" ELSE "not_recording"

\* The volume loop and the caret loop: try_lock(), is_recording() if it
\* succeeds, false if it does not.
TryLockQuery(l) ==
    /\ l \in {"volume", "caret"}
    /\ q_locked' = [q_locked EXCEPT ![l] = LockHeld]
    /\ q_result' = [q_result EXCEPT ![l] = IF LockHeld THEN "not_recording" ELSE Status]
    /\ UNCHANGED <<q_pc, flagvars, ctlvars, capture_thread, worker, streamvars,
                   logvars, dvars, avars, vvars, hvars, yvars>>

\* The focus loop: lock().await, which returns the guard at once if the
\* lock is free and waits for it otherwise; then is_recording().
FocusQuery ==
    /\ q_pc["focus"] = "sleep"
    /\ q_locked' = [q_locked EXCEPT !["focus"] = LockHeld]
    /\ IF LockHeld
       THEN /\ q_pc' = [q_pc EXCEPT !["focus"] = "lock"]
            /\ q_result' = [q_result EXCEPT !["focus"] = "none"]
       ELSE /\ q_result' = [q_result EXCEPT !["focus"] = Status]
            /\ UNCHANGED q_pc
    /\ UNCHANGED <<flagvars, ctlvars, capture_thread, worker, streamvars,
                   logvars, dvars, avars, vvars, hvars, yvars>>

\* ... the call in progress has returned: the waiting loop is given the lock.
FocusAcquire ==
    /\ q_pc["focus"] = "lock"
    /\ ~LockHeld
    /\ q_pc' = [q_pc EXCEPT !["focus"] = "sleep"]
    /\ q_result' = [q_result EXCEPT !["focus"] = Status]
    /\ UNCHANGED <<q_locked, flagvars, ctlvars, capture_thread, worker,
                   streamvars, logvars, dvars, avars, vvars, hvars, yvars>>

\* The lock is handed to those waiting in the order they came: no call
\* begins while the focus loop waits.
NoWaiter == q_pc["focus"] = "sleep"

NextMonitor ==
    \/ NoWaiter /\ CallStart
    \/ NoWaiter /\ CallStop
    \/ NoWaiter /\ CallToggle
    \/ StartConnected
    \/ StartConnectFailed
    \/ StopFinish
    \/ \E l \in Loops : TryLockQuery(l)
    \/ FocusQuery
    \/ FocusAcquire

SpecMonitor == Init /\ [][NextMonitor]_vars

\* ------------------------------------------- the Windows listener thread
\* WindowsHotkeyProvider with a registered hotkey (combo mode, or double-tap
\* of a key that is no modifier): on_trigger's listener thread on the
\* channel of GlobalHotKeyEvent, stop, and the hotkey pressed.
nonwin == <<flagvars, ctlvars, capture_thread, worker, streamvars, logvars,
            dvars, avars, vvars, hvars, qvars, lvars, cvars>>

WinModes == {"combo", "double_tap"}

\* on_trigger: the listener thread is spawned, with no time remembered.
WinOnTrigger(mode) ==
    /\ w_pc = "none"
    /\ w_mode' = mode
    /\ w_pc' = "test"
    /\ UNCHANGED <<w_is_active, w_channel, w_last, w_sent, w_invoked, nonwin>>

\* The top of the loop: `if !is_active.load() { break }`.
WinListenerTest ==
    /\ w_pc = "test"
    /\ w_pc' = IF w_is_active THEN "wait" ELSE "done"
    /\ UNCHANGED <<w_mode, w_is_active, w_channel, w_last, w_sent, w_invoked, nonwin>>

\* recv_timeout(200 ms) returns an event: in combo mode the callback; in
\* double-tap mode the callback if a time is remembered and the event is at
\* most the interval after it (gap), the time of the event remembered
\* otherwise.
WinListenerRecv(gap) ==
    /\ w_pc = "wait"
    /\ w_channel # <<>>
    /\ w_channel' = Tail(w_channel)
    /\ LET fires == w_mode = "combo" \/ (w_last = "prev" /\ within_interval(gap))
       IN  /\ w_invoked' = IF fires THEN w_invoked + 1 ELSE w_invoked
           /\ w_last' = CASE w_mode = "combo" -> w_last
                          [] fires -> "none"
                          [] OTHER -> "prev"
    /\ w_pc' = "test"
    /\ UNCHANGED <<w_mode, w_is_active, w_sent, nonwin>>

\* recv_timeout returns Err: no event within 200 ms.
WinListenerTimeout ==
    /\ w_pc = "wait"
    /\ w_channel = <<>>
    /\ w_pc' = "test"
    /\ UNCHANGED <<w_mode, w_is_active, w_channel, w_last, w_sent, w_invoked, nonwin>>

\* WindowsHotkeyProvider::stop: is_active cleared (there is no hook thread
\* to post WM_QUIT to); the hotkey stays registered.
WinStop ==
    /\ w_is_active
    /\ w_is_active' = FALSE
    /\ UNCHANGED <<w_mode, w_pc, w_channel, w_last, w_sent, w_invoked, nonwin>>

\* The user presses the registered hotkey: an event on the channel.
WinHotkeyEvent ==
    /\ w_sent < MaxKeyEvents
    /\ w_sent' = w_sent + 1
    /\ w_channel' = Append(w_channel, ~w_is_active)
    /\ UNCHANGED <<w_mode, w_is_active, w_pc, w_last, w_invoked, nonwin>>

NextWinListener ==
    \/ \E mode \in WinModes : WinOnTrigger(mode)
    \/ WinListenerTest
    \/ \E gap \in Gaps : WinListenerRecv(gap)
    \/ WinListenerTimeout
    \/ WinStop
    \/ WinHotkeyEvent

SpecWinListener == Init /\ [][NextWinListener]_vars

\* ------------------------------------------------ the manager's two locks
\* on_trigger, update_config and stop called on one HotkeyManager by up to
\* MaxThreads threads, each call followed from lock to lock. lock() waits
\* while another thread holds the Mutex; nothing inside a lock scope waits
\* (the providers' on_trigger only spawns a thread, their stop only stores a
\* flag and removes a monitor or posts a message).
nonlock == <<flagvars, ctlvars, capture_thread, worker, streamvars, logvars,
             dvars, avars, vvars, hvars, qvars, wvars, cvars>>

ManagerCalls == {"on_trigger", "update_config", "stop"}

\* A thread calls the manager: it arrives at the call's first lock().
LockCall(t, call) ==
    /\ l_pc[t] = "idle"
    /\ l_pc' = [l_pc EXCEPT ![t] = CASE call = "on_trigger" -> "t_callback"
                                     [] call = "update_config" -> "u_provider"
                                     [] OTHER -> "s_provider"]
    /\ UNCHANGED <<l_ret, provider_lock, callback_lock, nonlock>>

\* on_trigger: self.callback.lock().
OnTriggerLockCallback(t) ==
    /\ l_pc[t] = "t_callback"
    /\ callback_lock = 0
    /\ callback_lock' = t
    /\ l_pc' = [l_pc EXCEPT ![t] = "t_store"]
    /\ UNCHANGED <<l_ret, provider_lock, nonlock>>

\* on_trigger going on to the provider lock with the callback guard still
\* alive (the first `if let` block left open).
OnTriggerStore_keeps_lock(t) ==
    /\ l_pc[t] = "t_store"
    /\ l_pc' = [l_pc EXCEPT ![t] = "t_provider"]
    /\ UNCHANGED <<l_ret, provider_lock, callback_lock, nonlock>>

\* on_trigger: *cb = Some(callback.clone()); the guard is dropped at the end
\* of the block, before self.provider.lock().
OnTriggerStore(t) ==
    /\ l_pc[t] = "t_store"
    /\ callback_lock' = 0
    /\ l_pc' = [l_pc EXCEPT ![t] = "t_provider"]
    /\ UNCHANGED <<l_ret, provider_lock, nonlock>>

\* on_trigger: self.provider.lock().
OnTriggerLockProvider(t) ==
    /\ l_pc[t] = "t_provider"
    /\ provider_lock = 0
    /\ provider_lock' = t
    /\ l_pc' = [l_pc EXCEPT ![t] = "t_bind"]
    /\ UNCHANGED <<l_ret, callback_lock, nonlock>>

\* on_trigger: provider.on_trigger(...); the guard is dropped, the call
\* returns.
OnTriggerBind(t) ==
    /\ l_pc[t] = "t_bind"
    /\ provider_lock' = 0
    /\ l_pc' = [l_pc EXCEPT ![t] = "done"]
    /\ l_ret' = [l_ret EXCEPT ![t] = "ok"]
    /\ UNCHANGED <<callback_lock, nonlock>>

\* update_config: self.provider.lock().
UpdateLockProvider(t) ==
    /\ l_pc[t] = "u_provider"
    /\ provider_lock = 0
    /\ provider_lock' = t
    /\ l_pc' = [l_pc EXCEPT ![t] = "u_construct"]
    /\ UNCHANGED <<l_ret, callback_lock, nonlock>>

\* update_config: provider.stop(); create_hotkey_provider(config) is Ok.
UpdateConstruct(t) ==
    /\ l_pc[t] = "u_construct"
    /\ l_pc' = [l_pc EXCEPT ![t] = "u_callback"]
    /\ UNCHANGED <<l_ret, provider_lock, callback_lock, nonlock>>

\* ... is Err: `?` returns it, the provider guard is dropped.
UpdateConstructFailed(t) ==
    /\ l_pc[t] = "u_construct"
    /\ provider_lock' = 0
    /\ l_pc' = [l_pc EXCEPT ![t] = "done"]
    /\ l_ret' = [l_ret EXCEPT ![t] = "err"]
    /\ UNCHANGED <<callback_lock, nonlock>>

\* update_config: self.callback.lock(), the provider guard held.
UpdateLockCallback(t) ==
    /\ l_pc[t] = "u_callback"
    /\ callback_lock = 0
    /\ callback_lock' = t
    /\ l_pc' = [l_pc EXCEPT ![t] = "u_rebind"]
    /\ UNCHANGED <<l_ret, provider_lock, nonlock>>

\* update_config: new_provider.on_trigger(...) for the stored callback; the
\* callback guard is dropped.
UpdateRebind(t) ==
    /\ l_pc[t] = "u_rebind"
    /\ callback_lock' = 0
    /\ l_pc' = [l_pc EXCEPT ![t] = "u_replace"]
    /\ UNCHANGED <<l_ret, provider_lock, nonlock>>

\* update_config: *provider = new_provider; the provider guard is dropped,
\* Ok(()).
UpdateReplace(t) ==
    /\ l_pc[t] = "u_replace"
    /\ provider_lock' = 0
    /\ l_pc' = [l_pc EXCEPT ![t] = "done"]
    /\ l_ret' = [l_ret EXCEPT ![t] = "ok"]
    /\ UNCHANGED <<callback_lock, nonlock>>

\* stop: self.provider.lock().
StopLockProvider(t) ==
    /\ l_pc[t] = "s_provider"
    /\ provider_lock = 0
    /\ provider_lock' = t
    /\ l_pc' = [l_pc EXCEPT ![t] = "s_stop"]
    /\ UNCHANGED <<l_ret, callback_lock, nonlock>>

\* stop: provider.stop(); the guard is dropped.
StopRelease(t) ==
    /\ l_pc[t] = "s_stop"
    /\ provider_lock' = 0
    /\ l_pc' = [l_pc EXCEPT ![t] = "done"]
    /\ l_ret' = [l_ret EXCEPT ![t] = "ok"]
    /\ UNCHANGED <<callback_lock, nonlock>>

\* The steps of thread t inside a call.
ThreadStep(t) ==
    \/ OnTriggerLockCallback(t)
    \/ OnTriggerStore(t)
    \/ OnTriggerLockProvider(t)
    \/ OnTriggerBind(t)
    \/ UpdateLockProvider(t)
    \/ UpdateConstruct(t)
    \/ UpdateConstructFailed(t)
    \/ UpdateLockCallback(t)
    \/ UpdateRebind(t)
    \/ UpdateReplace(t)
    \/ StopLockProvider(t)
    \/ StopRelease(t)

NextLocks ==
    \/ \E t \in Threads, call \in ManagerCalls : LockCall(t, call)
    \/ \E t \in Threads : ThreadStep(t)

SpecLocks == Init /\ [][NextLocks]_vars

\* Every thread inside a call runs when it can.
FairSpecLocks == SpecLocks /\ \A t \in Threads : WF_vars(ThreadStep(t))

\* ------------------------------------------------- start called in a race
\* AudioCapture.start called by up to MaxCallers threads at once, with the
\* capture threads the calls spawn; nobody calls stop.
\* A thread calls start: it has not yet reached the swap.
CallerInvoke(c) ==
    /\ c_pc[c] = "idle"
    /\ c_pc' = [c_pc EXCEPT ![c] = "called"]
    /\ UNCHANGED <<c_ret, flagvars, ctlvars, capture_thread, worker, streamvars,
                   logvars, dvars, avars, vvars, hvars, qvars, wvars, lvars>>

\* Its call runs: the swap, the spawn if the flag was clear, the return.
CallerStart(c) ==
    /\ c_pc[c] = "called"
    /\ audio_capture_start
    /\ c_pc' = [c_pc EXCEPT ![c] = "returned"]
    /\ c_ret' = [c_ret EXCEPT ![c] = a_ret']
    /\ UNCHANGED <<is_recording, stop_signal, ctl_pc, op, ret, worker,
                   streamvars, logvars, dvars, cap_fault, frame_counter,
                   tokio_ch, audio_rx, captured, current_volume, vvars,
                   hvars, qvars, wvars, lvars>>

NextStartRace ==
    \/ \E c \in Callers : CallerInvoke(c)
    \/ \E c \in Callers : CallerStart(c)
    \/ \E s \in Sessions : CaptureSetupOk(s)
    \/ \E s \in Sessions : CaptureSetupFail(s)
    \/ \E s \in Sessions : CaptureLoopTest(s)
    \/ \E s \in Sessions : CaptureRecvTimeout(s)
    \/ \E s \in Sessions : CaptureRecvFrame(s)
    \/ \E s \in Sessions : CapturePanic(s)
    \/ \E s \in Sessions : CaptureThreadExit(s)
    \/ \E s \in Sessions : FrameReceive(s)

SpecStartRace == Init /\ [][NextStartRace]_vars

\* A call that was made runs, and so does every spawned thread.
FairnessStartRace ==
    /\ \A c \in Callers : WF_vars(CallerStart(c))
    /\ \A s \in Sessions :
          /\ WF_vars(CaptureSetupOk(s))
          /\ WF_vars(CaptureLoopTest(s))
          /\ WF_vars(CaptureRecvTimeout(s))
          /\ WF_vars(CaptureThreadExit(s))

FairSpecStartRace == SpecStartRace /\ FairnessStartRace

\* ================================================================ claims
Take(t, n) == SubSeq(t, 1, n)

LastChars(t, n) == SubSeq(t, Len(t) - n + 1, Len(t))

\* k is the length of the longest common prefix of a and b.
IsLongestCommonPrefix(k, a, b) ==
    /\ k \in 0..Min(Len(a), Len(b))
    /\ Take(a, k) = Take(b, k)
    /\ k < Min(Len(a), Len(b)) => a[k + 1] # b[k + 1]

\* C5: for all old_text and new_text the diff's common-prefix length p,
\* counted in characters, is the length of the longest common prefix, the
\* delete count is chars(old_text) - p, the first p characters of old_text
\* followed by the append text are new_text, and the first p characters of
\* old_text followed by its last d characters are old_text.
C5_DiffCorrect ==
    d_pc = "done" =>
        /\ IsLongestCommonPrefix(d_kept, d_old, d_new)
        /\ d_deleted = Len(d_old) - d_kept
        /\ Take(d_old, d_kept) \o d_appended = d_new
        /\ Take(d_old, d_kept) \o LastChars(d_old, d_deleted) = d_old

\* A multi-byte text was revised in its last character: the two texts share
\* bytes that are no common character.
C5_Witness ==
    /\ d_pc = "done"
    /\ d_old = <<1, 3>>
    /\ d_new = <<1, 4>>
    /\ d_kept = 1
    /\ d_deleted = 1
    /\ d_appended = <<4>>

\* ------------------------------------------------- the worker's fragments
Last(q) == q[Len(q)]

\* What a sequence gained in a step: the elements of `after` past `before`.
Added(before, after) == SubSeq(after, Len(before) + 1, Len(after))

\* Worker s takes a response in this step.
Receives(s) == Len(received'[s]) = Len(received[s]) + 1

\* C6: after the worker has processed any FinalResult fragment the baseline
\* (last rendered interim text) is empty.
C6_BaselineEmptyAfterFinal ==
    \A s \in Sessions :
        (received[s] # <<>> /\ Last(received[s]).response_type = "FinalResult")
            => last_text[s] = <<>>

\* C7: for an InterimResult with non-empty text the worker runs the diff
\* update against the current baseline and then sets the baseline to the
\* fragment's text; for an InterimResult with empty text it makes no insert
\* or delete call and leaves the baseline unchanged.
C7_InterimStep ==
    \A s \in Sessions :
        (Receives(s) /\ Last(received'[s]).response_type = "InterimResult") =>
            LET text == Last(received'[s]).text
                calls == Added(inserter_calls[s], inserter_calls'[s])
            IN  IF text # <<>>
                THEN /\ \E del_ok, ins_ok \in BOOLEAN :
                          calls = update_text(last_text[s], text, del_ok, ins_ok)
                     /\ last_text'[s] = text
                ELSE /\ calls = <<>>
                     /\ last_text'[s] = last_text[s]

C7_Interim == [][C7_InterimStep]_vars

\* An interim text replaced a different, non-empty baseline: the update
\* deleted the two characters of the old text before inserting the new one.
C7_Witness ==
    /\ Len(received[1]) = 2
    /\ received[1][1] = Response("InterimResult", <<1, 3>>)
    /\ received[1][2] = Response("InterimResult", <<4>>)
    /\ last_text[1] = <<4>>
    /\ Len(inserter_calls[1]) = 3
    /\ inserter_calls[1][2].call = "delete_chars"
    /\ inserter_calls[1][2].count = 2

\* The callback invocations a sequence of responses calls for.
RECURSIVE Fragments(_)
Fragments(q) ==
    IF q = <<>> THEN <<>>
    ELSE LET r == Head(q)
         IN  (IF r.response_type \in {"InterimResult", "FinalResult"}
              THEN <<[text |-> r.text, is_final |-> r.response_type = "FinalResult"]>>
              ELSE <<>>) \o Fragments(Tail(q))

\* C8: the result callback is invoked exactly once for every InterimResult
\* and FinalResult the worker processes, with the fragment's text and with
\* is_final false for interim and true for final, in the order of the
\* responses, none reordered, merged or skipped (empty texts included).
C8_CallbackPerFragment ==
    \A s \in Sessions : on_result[s] = Fragments(received[s])

\* An empty interim fragment and a final fragment were both reported.
C8_Witness ==
    /\ Len(received[1]) = 2
    /\ received[1][1] = Response("InterimResult", <<>>)
    /\ received[1][2] = Response("FinalResult", <<1>>)
    /\ Len(on_result[1]) = 2

OutOfLoop == {"stop_capture", "clear_flag", "done"}

\* C9: once the worker receives SessionFinished or Error, or finds the
\* response stream closed, it leaves its loop and processes nothing further:
\* it takes no response, invokes no callback and makes no insert or delete
\* call from then on.
C9_ExitStep ==
    \A s \in Sessions :
        /\ (Receives(s) /\ Last(received'[s]).response_type \in {"SessionFinished", "Error"})
               => worker'[s] = "stop_capture"
        /\ (worker[s] = "recv" /\ result_rx[s] = <<>> /\ rx_closed[s]
                /\ worker'[s] # worker[s])
               => worker'[s] = "stop_capture"
        /\ worker[s] \in OutOfLoop =>
               /\ worker'[s] \in OutOfLoop
               /\ received'[s] = received[s]
               /\ on_result'[s] = on_result[s]
               /\ inserter_calls'[s] = inserter_calls[s]
               /\ last_text'[s] = last_text[s]

C9_ExitIsFinal == [][C9_ExitStep]_vars

\* The worker has left its loop on an Error and has finished its cleanup's
\* first statement while a fragment that was queued behind the Error was
\* never reported.
C9_Witness ==
    /\ worker[1] = "clear_flag"
    /\ received[1] = <<Response("Error", <<>>)>>
    /\ result_rx[1] = <<Response("InterimResult", <<1>>)>>
    /\ on_result[1] = <<>>
    /\ inserter_calls[1] = <<>>

\* --------------------------------------------------- the recording state
LiveWorkers == {s \in Sessions : WorkerAlive(s)}

LiveCaptureThreads == {s \in Sessions : CaptureAlive(s)}

\* C1: a capture thread and a recognition session with its worker are alive
\* if and only if is_recording is true. Stated of the states in which no
\* controller call is in progress.
C1_AliveIffRecording ==
    ctl_pc = "idle" =>
        /\ is_recording <=> LiveWorkers # {}
        /\ is_recording <=> LiveCaptureThreads # {}

\* This step is a controller call being made (one that changes nothing at
\* all, the result of the previous call included, is a stuttering step).
CallStep == ctl_pc = "idle" /\ <<op, ret, ctl_pc>>' # <<op, ret, ctl_pc>>

\* C2: start called while Recording and stop called while Idle return
\* success and change nothing: no capture thread, no session, no worker, and
\* is_recording, the stop signal and the capture flag keep their values.
C2_NoopStep ==
    (CallStep /\ \/ op' = "start" /\ is_recording
                 \/ op' = "stop" /\ ~is_recording)
        => /\ ret' = "ok"
           /\ ctl_pc' = "idle"
           /\ UNCHANGED <<flagvars, nsess, capture_thread, worker, streamvars,
                          logvars>>

C2_NoopCalls == [][C2_NoopStep]_vars

\* start was called again after a start that failed to connect: the second
\* call found is_recording set and returned Ok without a session.
C2_Witness ==
    /\ op = "start"
    /\ ret = "ok"
    /\ ctl_pc = "idle"
    /\ is_recording
    /\ nsess = 1
    /\ worker[1] = "none"

\* This step is a controller call returning to its caller.
ReturnStep ==
    /\ ctl_pc' = "idle"
    /\ ctl_pc # "idle" \/ <<op, ret>>' # <<op, ret>>

\* is_recording when the call that returns in this step was made: a call
\* that waited for the connection passed start's guard, one that waited out
\* the grace period passed stop's.
WasRecording ==
    CASE ctl_pc = "connect" -> FALSE
      [] ctl_pc = "grace" -> TRUE
      [] OTHER -> is_recording

\* C3: every toggle flips is_recording: when the call returns, is_recording
\* is the opposite of what it was when the call was made.
C3_ToggleStep ==
    (ReturnStep /\ op' = "toggle") => is_recording' = ~WasRecording

C3_ToggleFlips == [][C3_ToggleStep]_vars

\* C4: at most one recording session exists at any time: never more than one
\* live worker and never more than one live capture thread.
C4_OneSession ==
    /\ Cardinality(LiveWorkers) <= 1
    /\ Cardinality(LiveCaptureThreads) <= 1

\* ------------------------------------------------------------ fairness
\* The runtime schedules every spawned task and thread, and stop's sleep
\* ends: a worker step, a capture thread step or the end of the grace period
\* that stays possible is eventually taken. Calls and the recognition
\* session's responses are up to the environment.
Fairness ==
    /\ WF_vars(StopFinish)
    /\ \A s \in Sessions :
         /\ WF_vars(WorkerCheckStop(s))
         /\ WF_vars(WorkerResponse(s, {TRUE}))
         /\ WF_vars(WorkerChannelClosed(s))
         /\ WF_vars(WorkerTimeout(s))
         /\ WF_vars(WorkerStopCapture(s))
         /\ WF_vars(WorkerClearFlag(s))
         /\ WF_vars(CaptureLoopExit(s))
         /\ WF_vars(CaptureThreadExit(s))

FairSpec == Spec /\ Fairness

InLoop == {"check", "recv"}

\* C10, the steps: a worker leaves its loop only into its cleanup, whose two
\* statements clear the capture flag and then is_recording before the task
\* ends; a stop call made while Recording clears the capture flag when it is
\* made and is_recording when it returns.
C10_CleanupStep ==
    /\ \A s \in Sessions :
        /\ (worker[s] \in InLoop /\ worker'[s] \notin InLoop)
               => worker'[s] = "stop_capture"
        /\ (worker[s] = "stop_capture" /\ worker'[s] # "stop_capture")
               => (worker'[s] = "clear_flag" /\ ~cap_is_recording')
        /\ (worker[s] = "clear_flag" /\ worker'[s] # "clear_flag")
               => (worker'[s] = "done" /\ ~is_recording')
    /\ (CallStep /\ op' \in {"stop", "toggle"} /\ is_recording)
           => (ctl_pc' = "grace" /\ stop_signal' /\ ~cap_is_recording')
    /\ (ctl_pc = "grace" /\ ctl_pc' # "grace")
           => (ctl_pc' = "idle" /\ ~is_recording' /\ ret' = "ok")

\* A worker has just left its loop (its cleanup is still to run), or a stop
\* call made while Recording is in its grace period.
TeardownBegun ==
    \/ \E s \in Sessions : worker[s] = "stop_capture"
    \/ ctl_pc = "grace"

\* C10: on every exit path of the worker and on every stop made while
\* Recording, AudioCapture.stop is called and is_recording is set to false;
\* from there, unless a new session is started first, a state is reached in
\* which both the capture flag and is_recording are false.
C10_TeardownClearsFlags ==
    /\ [][C10_CleanupStep]_vars
    /\ \A k \in 0..MaxSessions :
         (TeardownBegun /\ nsess = k)
             ~> ((~cap_is_recording /\ ~is_recording) \/ nsess > k)

\* A session was ended by the recognition session's Error: the worker has
\* finished its cleanup and both flags are clear.
C10_Witness ==
    /\ worker[1] = "done"
    /\ received[1] = <<Response("Error", <<>>)>>
    /\ nsess = 1
    /\ ~cap_is_recording
    /\ ~is_recording

\* ------------------------------------------------------------ cancellation
\* C11: after stop has set the stop signal, the worker of the stopped
\* session eventually observes it and leaves its loop, without another
\* response having to arrive on the stream.
C11_WorkerObservesStop ==
    \A s \in Sessions :
        (ctl_pc = "grace" /\ nsess = s /\ worker[s] \in InLoop)
            ~> (worker[s] \notin InLoop)

\* C12: stop called while Recording sets the stop signal and stops
\* AudioCapture when it is made and leaves is_recording set; while it waits
\* out the grace period it does not touch is_recording (only a worker's
\* cleanup may clear it); it sets is_recording to false when the grace period
\* is over and returns Ok with is_recording false.
C12_StopStep ==
    /\ (CallStep /\ op' = "stop" /\ is_recording)
           => /\ stop_signal'
              /\ ~cap_is_recording'
              /\ is_recording'
              /\ ctl_pc' = "grace"
              /\ ret' = "pending"
    /\ (op = "stop" /\ ctl_pc = "grace" /\ ctl_pc' = "grace"
            /\ is_recording' # is_recording)
           => \E s \in Sessions : worker[s] = "clear_flag" /\ worker'[s] = "done"
    /\ (op = "stop" /\ ctl_pc = "grace" /\ ctl_pc' # "grace")
           => /\ ctl_pc' = "idle"
              /\ ret' = "ok"
              /\ ~is_recording'

C12_StopOrder == [][C12_StopStep]_vars

\* stop has returned while the worker of the stopped session is still in its
\* loop: it was stop itself that cleared is_recording, after the grace
\* period.
C12_Witness ==
    /\ op = "stop"
    /\ ret = "ok"
    /\ ctl_pc = "idle"
    /\ nsess = 1
    /\ stop_signal
    /\ ~is_recording
    /\ ~cap_is_recording
    /\ worker[1] \in InLoop

\* The TextInserter calls made in this step by worker s.
NewCalls(s) == Added(inserter_calls[s], inserter_calls'[s])

Failed(calls) == \E i \in DOMAIN calls : ~calls[i].ok

\* C13: a failing delete_chars or insert call while a fragment is handled
\* does not end the session: the worker goes back to the top of its loop,
\* is_recording, the stop signal, the capture flag and the capture thread are
\* as before, and a fragment taken after a failure is reported to the
\* callback and given to the diff update like any other.
C13_FailureStep ==
    \A s \in Sessions :
        /\ (Receives(s) /\ Failed(NewCalls(s)))
               => /\ worker'[s] = "check"
                  /\ UNCHANGED <<flagvars, capture_thread>>
        /\ (Receives(s) /\ Failed(inserter_calls[s])
                /\ Last(received'[s]).response_type \in {"InterimResult", "FinalResult"}
                /\ Last(received'[s]).text # <<>>)
               => LET r == Last(received'[s])
                  IN  /\ Added(on_result[s], on_result'[s])
                           = <<[text |-> r.text,
                                is_final |-> r.response_type = "FinalResult"]>>
                      /\ \E del_ok, ins_ok \in BOOLEAN :
                           NewCalls(s) = update_text(last_text[s], r.text, del_ok, ins_ok)

C13_FailureContinues == [][C13_FailureStep]_vars

\* The insert of the first fragment failed; the second fragment was taken
\* afterwards and its insert was made, with the session still recording.
C13_Witness ==
    /\ Len(received[1]) = 2
    /\ Len(inserter_calls[1]) = 2
    /\ ~inserter_calls[1][1].ok
    /\ inserter_calls[1][2].call = "insert"
    /\ inserter_calls[1][2].ok
    /\ worker[1] \in InLoop
    /\ is_recording
    /\ cap_is_recording
    /\ capture_thread[1] = "run"

\* ------------------------------------------------------------ AudioCapture
\* This step is a call of AudioCapture.start (a call that changes nothing at
\* all, its result included, is a stuttering step).
CaptureStartStep == a_op' = "start" /\ <<a_op, a_ret, nsess>>' # <<a_op, a_ret, nsess>>

CaptureThreads == {s \in Sessions : capture_thread[s] # "none"}

\* C14: AudioCapture.start called while the recording flag is set returns the
\* "Already recording" error, spawns no thread, creates no frame channel and
\* leaves the flag set; called while the flag is clear it sets the flag,
\* spawns exactly one capture thread, with a new and empty frame channel of
\* bounded capacity, and returns Ok.
C14_StartStep ==
    CaptureStartStep =>
        IF cap_is_recording
        THEN /\ a_ret' = "err"
             /\ cap_is_recording'
             /\ UNCHANGED <<nsess, capture_thread, tokio_ch, audio_rx>>
        ELSE /\ a_ret' = "ok"
             /\ cap_is_recording'
             /\ nsess' = nsess + 1
             /\ \E s \in Sessions \ CaptureThreads :
                  /\ capture_thread' = [capture_thread EXCEPT ![s] = "setup"]
                  /\ tokio_ch'[s] = <<>>
                  /\ Len(tokio_ch'[s]) <= ChannelCapacity

C14_StartGuard == [][C14_StartStep]_vars

\* A second start was refused while the thread of the first was running.
C14_Witness ==
    /\ a_op = "start"
    /\ a_ret = "err"
    /\ nsess = 1
    /\ cap_is_recording
    /\ capture_thread = [s \in Sessions |-> IF s = 1 THEN "run" ELSE "none"]

InSetupOrLoop == {"setup", "run", "wait"}

\* C15, the steps: with the flag clear the loop test ends the loop, and a
\* wait for a frame always comes back to the loop test (or ends the thread).
C15_PollStep ==
    \A s \in Sessions :
        /\ (capture_thread[s] = "run" /\ ~cap_is_recording
                /\ capture_thread'[s] # "run")
               => capture_thread'[s] = "exiting"
        /\ (capture_thread[s] = "wait" /\ capture_thread'[s] # "wait")
               => capture_thread'[s] \in {"run", "exiting"}

\* C15: after the recording flag is cleared, and unless a later start sets
\* it again, every capture thread observes the cleared flag and terminates,
\* also when the device delivers no frame (the wait times out).
C15_ThreadTerminates ==
    /\ [][C15_PollStep]_vars
    /\ ~cap_is_recording
           ~> (cap_is_recording \/ \A s \in Sessions : ~CaptureAlive(s))

\* The thread ended after a stop without the device having delivered a
\* single frame.
C15_Witness ==
    /\ a_op = "stop"
    /\ nsess = 1
    /\ capture_thread[1] = "done"
    /\ cap_fault[1] = "none"
    /\ captured = 0
    /\ ~cap_is_recording

\* C16: whichever way run_audio_capture ends (normal return, an error from
\* the setup of device or encoder, a panic in the loop), the thread goes on
\* to its last statement, which clears the recording flag; a start made with
\* the flag clear succeeds.
C16_EndStep ==
    /\ \A s \in Sessions :
        /\ (capture_thread[s] \in InSetupOrLoop /\ capture_thread'[s] \notin InSetupOrLoop)
               => capture_thread'[s] = "exiting"
        /\ (capture_thread[s] = "exiting" /\ capture_thread'[s] # "exiting")
               => (capture_thread'[s] = "done" /\ ~cap_is_recording')
    /\ (CaptureStartStep /\ ~cap_is_recording) => a_ret' = "ok"

C16_FlagClearedOnEnd == [][C16_EndStep]_vars

\* The first thread ended in a panic, with no stop ever called; a second
\* start succeeded afterwards.
C16_Witness ==
    /\ cap_fault[1] = "panic"
    /\ capture_thread[1] = "done"
    /\ a_op = "start"
    /\ a_ret = "ok"
    /\ nsess = 2
    /\ capture_thread[2] = "setup"

\* C17: a failure of the initial device probe (no input device, the
\* configuration not obtained or rejected) is returned by the start call that
\* ran into it: that call's result is the error.
C17_ProbeFailureReturned ==
    \A s \in Sessions :
        (cap_fault[s] \in {"no_device", "config"} /\ nsess = s /\ a_op = "start")
            => a_ret = "err"

Increasing(q) == \A i, j \in DOMAIN q : i < j => q[i] < q[j]

\* C18, the state: the channel never holds more than its capacity; what the
\* receiver has taken followed by what is queued is a strictly increasing
\* sequence of numbers of encoded frames (a subsequence of the frames
\* encoded, in capture order, none twice).
C18_ChannelInv ==
    \A s \in Sessions :
        /\ Len(tokio_ch[s]) <= ChannelCapacity
        /\ Increasing(audio_rx[s] \o tokio_ch[s])
        /\ \A i \in DOMAIN (audio_rx[s] \o tokio_ch[s]) :
             (audio_rx[s] \o tokio_ch[s])[i] \in 0..(frame_counter[s] - 1)

\* C18, the step: a frame encoded while the channel is full is dropped (the
\* channel is as before) and the thread is back at its loop test; one encoded
\* while there is room is queued last.
C18_PushStep ==
    \A s \in Sessions :
        frame_counter'[s] # frame_counter[s] =>
            /\ frame_counter'[s] = frame_counter[s] + 1
            /\ capture_thread'[s] = "run"
            /\ tokio_ch'[s] = IF Len(tokio_ch[s]) >= ChannelCapacity
                              THEN tokio_ch[s]
                              ELSE Append(tokio_ch[s], frame_counter[s])

C20_TriggerStep ==
    (hk_events' = hk_events + 1 /\ hk_gaps' # hk_gaps /\ hk_registered >= 2
        /\ hk_provider = 1 /\ hk_is_active[1]
        /\ hk_binding = {} /\ hk_starting = {}) =>
        Added(hk_invoked, hk_invoked')
            = IF hk_tap = "one" /\ hk_tap' = "none" THEN <<hk_callback>> ELSE <<>>

C20_LatestCallbackOnly == [][C20_TriggerStep]_vars


\* A tap of the double-tap key, a chord, a trigger (the second of two taps
\* within the interval), and the manager with no call and no listener thread
\* under way.
TapStep == hk_events' = hk_events + 1 /\ hk_gaps' # hk_gaps

ChordStep == hk_events' = hk_events + 1 /\ hk_gaps' = hk_gaps

Trigger == hk_tap = "one" /\ hk_tap' = "none"

Settled == hk_binding = {} /\ hk_starting = {}

\* The monitors whose block goes past its is_active test, and those bound to
\* provider p.
ActiveMonitors == SelectSeq(hk_monitors, LAMBDA m : hk_is_active[m.p])

Bindings(p) == SelectSeq(hk_monitors, LAMBDA m : m.p = p)

\* C21: the registered callback survives provider replacement: update_config
\* leaves the stored callback as it is, every replaced provider is stopped,
\* and after on_trigger calls and successful update_config calls a trigger
\* on the provider in place invokes the callback registered last exactly
\* once, and a tap that completes no trigger invokes none. Stated with the
\* calls made one after another and returned, the listener threads started,
\* and the remembered tap the pending one.
InCallOrder ==
    \A i, j \in DOMAIN hk_monitors :
        hk_monitors[i].id < hk_monitors[j].id =>
            /\ hk_monitors[i].cb <= hk_monitors[j].cb
            /\ hk_monitors[i].p = hk_monitors[j].p =>
                  hk_monitors[i].cb < hk_monitors[j].cb

C21_UpdateStep ==
    hk_provider' # hk_provider =>
        /\ hk_callback' = hk_callback
        /\ \A p \in Providers : p < hk_provider' => ~hk_is_active'[p]

C21_TriggerStep ==
    (TapStep /\ hk_provider >= 2 /\ hk_is_active[hk_provider]
        /\ hk_config[hk_provider] = "double_tap" /\ hk_callback # 0 /\ Settled
        /\ InCallOrder
        /\ hk_last_press = (IF hk_tap = "one" THEN "prev" ELSE "none")) =>
        Added(hk_invoked, hk_invoked') = IF Trigger THEN <<hk_callback>> ELSE <<>>

C21_CallbackSurvivesSwap == [][C21_UpdateStep /\ C21_TriggerStep]_vars

\* C22: however one on_trigger call and update_config interleave, once the
\* calls have returned and the listener threads have started, the provider
\* in place, if active, carries exactly one binding, of the stored callback.
C22_OneBinding ==
    (hk_registered = 1 /\ Settled /\ hk_is_active[hk_provider]
        /\ target_mask_known(hk_config[hk_provider])) =>
        /\ Len(Bindings(hk_provider)) = 1
        /\ Bindings(hk_provider)[1].cb = hk_callback

\* C23: when the construction of the new provider fails in update_config,
\* the call returns the error, the old provider is stopped and is not
\* started again, the manager keeps the old provider, and the stored
\* callback is as it was.
C23_FailedUpdate ==
    /\ hk_op' = "update_config" /\ hk_ret' = "err"
    /\ UNCHANGED <<hk_registered, hk_spawned, hk_starting, hk_events>>

C23_FailureStep ==
    C23_FailedUpdate =>
        /\ hk_provider' = hk_provider
        /\ hk_config' = hk_config
        /\ hk_callback' = hk_callback
        /\ ~hk_is_active'[hk_provider]
        /\ ActiveMonitors' = <<>>

C23_NoRestart ==
    \A p \in Providers : (p <= hk_provider /\ ~hk_is_active[p]) => ~hk_is_active'[p]

C23_FailedUpdateStops == [][C23_FailureStep /\ C23_NoRestart]_vars

C23_Witness ==
    /\ hk_op = "update_config" /\ hk_ret = "err"
    /\ hk_callback = 1 /\ hk_provider = 1 /\ ~hk_is_active[1]
    /\ Len(hk_monitors) = 1 /\ hk_events > 0

\* C24: after an update_config call that has failed, the configuration of
\* before is in effect: a trigger invokes the stored callback, which was
\* bound to the provider before the call.
C24_TriggerStep ==
    (TapStep /\ Trigger /\ hk_op = "update_config" /\ hk_ret = "err"
        /\ hk_registered = 1 /\ Settled) =>
        Added(hk_invoked, hk_invoked') = <<hk_callback>>

C24_PreviousConfigInEffect == [][C24_TriggerStep]_vars

\* C25: stop is idempotent: a call returns without error and leaves the
\* provider in place inactive, and a call on a provider already inactive
\* changes nothing of the manager but, at most, the (then idle) monitor a
\* listener thread has installed since, whatever calls came before.
C25_StopCall ==
    /\ hk_op' = "stop"
    /\ UNCHANGED <<hk_registered, hk_spawned, hk_starting, hk_events>>

C25_StopStep ==
    C25_StopCall =>
        /\ hk_ret' = "ok"
        /\ ~hk_is_active'[hk_provider]
        /\ UNCHANGED <<hk_provider, hk_callback, hk_config, hk_invoked, hk_last_press>>
        /\ ~hk_is_active[hk_provider] =>
              /\ hk_is_active' = hk_is_active
              /\ ActiveMonitors' = ActiveMonitors
              /\ hk_monitor_handle[hk_provider] = 0 =>
                    UNCHANGED <<hk_monitors, hk_monitor_handle>>

C26_EventStep ==
    (TapStep /\ Len(ActiveMonitors) = 1) =>
        IF hk_last_press # "none" /\ hk_elapsed' \in {"below", "at"}
        THEN /\ Added(hk_invoked, hk_invoked') = <<ActiveMonitors[1].cb>>
             /\ hk_last_press' = "none"
        ELSE /\ hk_invoked' = hk_invoked
             /\ hk_last_press' = "prev"

C26_DoubleTapRule == [][C26_EventStep]_vars

C26_Witness ==
    /\ Len(ActiveMonitors) = 1
    /\ hk_gaps = <<"above", "at">> /\ hk_elapsed = "at"
    /\ Len(hk_invoked) = 1 /\ hk_last_press = "none"

\* C27: on one provider bound once before the first release: two releases
\* within the interval of each other invoke the callback once; two further
\* apart invoke none and leave the second pending; three rapid releases
\* invoke it once, the third being left pending.
OneBindingThroughout ==
    /\ hk_provider = 1 /\ hk_is_active[1] /\ hk_spawned = 1
    /\ Len(hk_monitors) = 1 /\ hk_monitors[1].since = 0

Rapid == {"below", "at"}

C27_Sequences ==
    OneBindingThroughout =>
        /\ (Len(hk_gaps) = 2 /\ hk_gaps[2] \in Rapid) =>
              hk_invoked = <<hk_monitors[1].cb>> /\ hk_last_press = "none"
        /\ (Len(hk_gaps) = 2 /\ hk_gaps[2] = "above") =>
              hk_invoked = <<>> /\ hk_last_press = "prev"
        /\ (Len(hk_gaps) = 3 /\ hk_gaps[2] \in Rapid /\ hk_gaps[3] \in Rapid) =>
              hk_invoked = <<hk_monitors[1].cb>> /\ hk_last_press = "prev"

C27_Witness ==
    /\ OneBindingThroughout
    /\ hk_gaps = <<"above", "below", "at">>
    /\ Len(hk_invoked) = 1

\* C28: in combo mode every occurrence of the chord invokes the callback
\* once. Stated of a provider made from a combo configuration, active, the
\* stored callback bound to it and its listener thread started.
C28_ChordStep ==
    (ChordStep /\ hk_config[hk_provider] = "combo" /\ hk_is_active[hk_provider]
        /\ hk_callback # 0 /\ Settled) =>
        Added(hk_invoked, hk_invoked') = <<hk_callback>>

C28_ComboFires == [][C28_ChordStep]_vars

\* C30: an invalid hotkey spec never yields an installed provider that can
\* never fire: no provider in place and active was made from a double-tap
\* key the provider does not know.
C30_InvalidSpecRejected ==
    ~(hk_is_active[hk_provider] /\ ~target_mask_known(hk_config[hk_provider]))

\* C29: the status queries of the monitoring loops never wait for the
\* controller's lock: no loop is ever waiting in lock(), and a query issued
\* while a start, stop or toggle was in progress has returned "not
\* recording".
C29_QueriesNeverBlock ==
    \A l \in Loops :
        /\ q_pc[l] # "lock"
        /\ q_locked[l] => q_result[l] = "not_recording"

\* C31: a diff update makes at most one delete_chars call and then at most
\* one insert call, in that order; delete_chars is never called with count
\* 0 nor insert with an empty text, and no call is made when the old and the
\* new text are equal.
C31_CallShape ==
    d_pc = "done" =>
        /\ Len(d_calls) <= 2
        /\ Len(d_calls) = 2 =>
              d_calls[1].call = "delete_chars" /\ d_calls[2].call = "insert"
        /\ \A i \in DOMAIN d_calls :
              /\ d_calls[i].call = "delete_chars" => d_calls[i].count > 0
              /\ d_calls[i].call = "insert" => d_calls[i].text # <<>>
        /\ d_old = d_new => d_calls = <<>>

\* Both calls were made: one character deleted and another typed.
C31_Witness ==
    /\ d_pc = "done"
    /\ d_old = <<1, 3>> /\ d_new = <<1, 4>>
    /\ Len(d_calls) = 2 /\ d_calls[1].count = 1 /\ d_calls[2].text = <<4>>

\* The texts of the final fragments among the responses, concatenated.
RECURSIVE FinalsText(_)
FinalsText(q) ==
    IF q = <<>> THEN <<>>
    ELSE (IF Head(q).response_type = "FinalResult" THEN Head(q).text ELSE <<>>)
         \o FinalsText(Tail(q))

AllOk(calls) == \A i \in DOMAIN calls : calls[i].ok

\* C32: if every insert and delete_chars call of a session has succeeded
\* (and nothing else edits the field), then after each response the worker
\* has processed the text the session's calls have produced in the field is
\* the texts of the final fragments processed so far, concatenated, followed
\* by the current baseline.
C32_FieldText ==
    \A s \in Sessions :
        AllOk(inserter_calls[s]) =>
            field_after(inserter_calls[s], <<>>) = FinalsText(received[s]) \o last_text[s]

\* A final fragment, then an interim one of the next sentence.
C32_Witness ==
    /\ received[1] = <<Response("FinalResult", <<1, 3>>), Response("InterimResult", <<4>>)>>
    /\ AllOk(inserter_calls[1])
    /\ field_after(inserter_calls[1], <<>>) = <<1, 3, 4>>
    /\ last_text[1] = <<4>>

\* C33: the cleanup of an earlier session never disturbs a later one: once a
\* new session has been started, a step of an earlier session's worker or
\* capture thread clears neither the controller's nor the capture's
\* recording flag (and so does not stop the new session's capture).
C33_EarlierStep ==
    \A s \in Sessions :
        (s < nsess /\ is_recording /\ cap_is_recording
            /\ (worker'[s] # worker[s] \/ capture_thread'[s] # capture_thread[s])) =>
            is_recording' /\ cap_is_recording'

C33_NoLateInterference == [][C33_EarlierStep]_vars

\* C34: when start returns an error the controller is Idle: is_recording is
\* false and the session's capture thread is not running.
C34_ErrorStep ==
    (ret # "err" /\ ret' = "err" /\ op' \in {"start", "toggle"}) =>
        /\ ~is_recording'
        /\ \A s \in Sessions : capture_thread'[s] \in {"none", "done"}

C34_IdleAfterFailedStart == [][C34_ErrorStep]_vars

\* C35: when delete_chars fails during a diff update, insert is not
\* attempted for that fragment, and the baseline is set as after a
\* successful update: to the fragment's text for an interim fragment, to the
\* empty text for a final one.
C35_DeleteFailedStep ==
    \A s \in Sessions :
        (Receives(s) /\ NewCalls(s) # <<>>
            /\ NewCalls(s)[1].call = "delete_chars" /\ ~NewCalls(s)[1].ok) =>
            /\ Len(NewCalls(s)) = 1
            /\ last_text'[s] = IF Last(received'[s]).response_type = "InterimResult"
                               THEN Last(received'[s]).text ELSE <<>>

C35_DeleteFailure == [][C35_DeleteFailedStep]_vars

\* The delete of an update that also had a text to insert failed: the
\* baseline <<1, 3>> was replaced by the interim text <<4>>.
C35_Witness ==
    /\ Len(received[1]) = 2
    /\ received[1][2] = Response("InterimResult", <<4>>)
    /\ Len(inserter_calls[1]) = 2
    /\ inserter_calls[1][2].call = "delete_chars"
    /\ ~inserter_calls[1][2].ok
    /\ last_text[1] = <<4>>

\* C40: a response of any other type than InterimResult, FinalResult,
\* SessionFinished and Error leaves the baseline as it is, invokes no result
\* callback, makes no insert or delete call, and the worker goes on to the
\* next response.
C40_OtherStep ==
    \A s \in Sessions :
        (Receives(s) /\ Last(received'[s]).response_type = "Other") =>
            /\ last_text'[s] = last_text[s]
            /\ on_result'[s] = on_result[s]
            /\ inserter_calls'[s] = inserter_calls[s]
            /\ worker'[s] = "check"
            /\ UNCHANGED <<flagvars, capture_thread>>

C40_OtherIgnored == [][C40_OtherStep]_vars

\* A response of another type came after an interim fragment: the baseline
\* is the fragment's text still, and the worker is in its loop.
C40_Witness ==
    /\ Len(received[1]) = 2
    /\ received[1][1] = Response("InterimResult", <<1, 3>>)
    /\ received[1][2].response_type = "Other"
    /\ last_text[1] = <<1, 3>>
    /\ Len(on_result[1]) = 1
    /\ Len(inserter_calls[1]) = 1
    /\ worker[1] \in InLoop

\* C36: once a provider's stop has returned, the provider invokes the
\* callback for no later key event: an event that arrives after stop, and is
\* taken by a listener thread that was inside its timed wait, invokes none.
C36_LateEventStep ==
    (Len(w_channel') < Len(w_channel) /\ Head(w_channel)) => w_invoked' = w_invoked

C36_NoCallbackAfterStop == [][C36_LateEventStep]_vars

\* C37: a single qualifying key event never fires the callback, whatever the
\* number of bindings and of providers: a tap with no tap remembered invokes
\* nothing, and no tap invokes more than one callback.
C37_SingleTapStep ==
    TapStep =>
        /\ hk_last_press = "none" => hk_invoked' = hk_invoked
        /\ Len(hk_invoked') <= Len(hk_invoked) + 1

C37_TwoEventsPerTrigger == [][C37_SingleTapStep]_vars

\* C38: no interleaving of on_trigger, update_config and stop calls on one
\* HotkeyManager deadlocks: every call made returns. No thread waits for the
\* provider lock with the callback lock in hand.
C38_LockOrder ==
    \A t \in Threads :
        callback_lock = t => l_pc[t] \in {"t_store", "u_rebind"}

C38_EveryCallReturns ==
    /\ []C38_LockOrder
    /\ \A t \in Threads : (l_pc[t] # "idle") ~> (l_pc[t] = "done")

\* update_config, holding the provider lock, waits for the callback lock
\* that an on_trigger call holds, while a stop call waits for the provider
\* lock.
C38_Witness ==
    /\ l_pc[1] = "u_callback" /\ provider_lock = 1
    /\ l_pc[2] = "t_store" /\ callback_lock = 2
    /\ l_pc[3] = "s_provider"

\* C39: of the start calls made at once while no capture is active, and as
\* long as the capture begun by the first has not ended, exactly one
\* succeeds and spawns a capture thread; every other returns the "Already
\* recording" error and spawns nothing.
Succeeded == {c \in Callers : c_ret[c] = "ok"}

Refused == {c \in Callers : c_ret[c] = "err"}

NoCaptureEnded == \A s \in Sessions : capture_thread[s] # "done"

C39_OneWinner ==
    /\ Cardinality(Succeeded) = nsess
    /\ Cardinality(CaptureThreads) = nsess
    /\ NoCaptureEnded =>
          /\ Cardinality(Succeeded) <= 1
          /\ (\A c \in Callers : c_pc[c] = "returned") =>
                /\ Cardinality(Succeeded) = 1
                /\ Refused = Callers \ Succeeded

\* Both calls have returned, the second caller's first and the other
\* refused, with the thread of the winner in its loop.
C39_Witness ==
    /\ \A c \in Callers : c_pc[c] = "returned"
    /\ c_ret[2] = "ok" /\ c_ret[1] = "err"
    /\ nsess = 1 /\ capture_thread[1] = "run" /\ cap_is_recording

\* C39 as stated, with no condition on the winner's capture: from a moment
\* when all the calls are under way, none having reached its swap, at most
\* one of them ever succeeds.
AllUnderWay == \A c \in Callers : c_pc[c] = "called"

C39_ExactlyOneSucceeds == [](AllUnderWay => [](Cardinality(Succeeded) <= 1))

====
